---- MODULE Spec2Model ----
(***************************************************************************)
(* Model of the PurpleAir temperature calibration core:                    *)
(*   - src/app/utils/feature_engineering.py  FeatureEngineer (63 features) *)
(*   - src/data/feature_engineering.py       FeatureEngineer, by steps     *)
(*   - src/app/utils/model_predictor.py      TemperatureCalibrator         *)
(*   - src/models/calibration.py             TemporalTempStratCalibrator   *)
(*                                                                         *)
(* A data frame is a record [cols, opaque]: cols maps a column name to the *)
(* sequence of its cell values, opaque is the set of the columns that are  *)
(* carried by name only.  A numeric cell is an exact rational <<num, den>> *)
(* in lowest terms with den > 0; the missing value (NaN) is <<0, 0>>.      *)
(***************************************************************************)
EXTENDS Integers, Sequences, FiniteSets, TLC

VARIABLES
    program,      \* what runs: "features" (one feature-engineering call),
                  \* "app" (src/app pipeline) or "lib" (src/models calibrator)
    df,           \* the input frame
    call,         \* the feature-engineering function called ("none" before)
    climate_zone, \* FeatureEngineer.climate_zone of src/data ("" is None)
    out,          \* the frame the feature engineering returned
    tc,           \* the TemperatureCalibrator object, NoObject before
    tc_error,     \* the exception its construction or calibrate raised
    tc_result,    \* the frame TemperatureCalibrator.calibrate returned
    ttsc,         \* the TemporalTempStratCalibrator object, NoObject before
    ttsc_error,   \* the exception its constructor or calibrate raised
    ttsc_result,  \* the frame TemporalTempStratCalibrator.calibrate returned
    metadata,     \* metadata.json as the constructor found it
    series,       \* the Series the caller of the library is at: "A", then "B"
    batch_error,  \* the exception batch_calibrate raised, "" if none
    batch_result, \* the frame batch_calibrate returned
    model_type,   \* the model_type batch_calibrate was called with, "" before
    met,          \* the columns given to a meteorological function
    met_call,     \* the meteorological function called ("none" before)
    met_result,   \* the column it returned
    cache_files,  \* ZenodoERA5Downloader's cache_dir: the state of each file
    download,     \* the last download_file call: its arguments and outcome
    pc,           \* where main of upload_to_zenodo_resume.py is
    nc_files,     \* the local .nc files it found
    deposition_files, \* the files in the Zenodo deposition
    failed_files,     \* the failed_files list of main
    metadata_added,   \* what add_metadata returned ("none" before the call)
    published         \* whether the deposition was published

vars == <<program, df, call, climate_zone, out,
          tc, tc_error, tc_result, ttsc, ttsc_error, ttsc_result,
          metadata, series, batch_error, batch_result, model_type,
          met, met_call, met_result, cache_files, download,
          pc, nc_files, deposition_files, failed_files, metadata_added,
          published>>

appVars == <<tc, tc_error, tc_result>>

libVars == <<ttsc, ttsc_error, ttsc_result, metadata, series>>

batchVars == <<batch_error, batch_result, model_type>>

metVars == <<met, met_call, met_result>>

downloadVars == <<cache_files, download>>

uploadVars == <<pc, nc_files, deposition_files, failed_files, metadata_added,
                published>>

\* The variables of the calibration pipelines.
pipelineVars == <<program, df, call, climate_zone, out, appVars, libVars,
                  batchVars>>

----------------------------------------------------------------------------
(* Exact arithmetic with NaN, as numpy/pandas propagate it.                *)

NaN == <<0, 0>>

IsNaN(x) == x[2] = 0

Abs(a) == IF a < 0 THEN 0 - a ELSE a

RECURSIVE GCD(_, _)
GCD(a, b) == IF b = 0 THEN a ELSE GCD(b, a % b)

Norm(n, d) ==
    LET g == GCD(Abs(n), d)
    IN  <<n \div g, d \div g>>

Q(n) == <<n, 1>>

QAdd(a, b) ==
    IF IsNaN(a) \/ IsNaN(b) THEN NaN
    ELSE Norm(a[1] * b[2] + b[1] * a[2], a[2] * b[2])

QSub(a, b) ==
    IF IsNaN(a) \/ IsNaN(b) THEN NaN
    ELSE Norm(a[1] * b[2] - b[1] * a[2], a[2] * b[2])

QMul(a, b) ==
    IF IsNaN(a) \/ IsNaN(b) THEN NaN
    ELSE Norm(a[1] * b[1], a[2] * b[2])

QDivInt(a, k) ==
    IF IsNaN(a) \/ k = 0 THEN NaN
    ELSE Norm(a[1], a[2] * k)

\* Comparisons with NaN are False, as in numpy.
QLt(a, b) == ~IsNaN(a) /\ ~IsNaN(b) /\ a[1] * b[2] < b[1] * a[2]

QGt(a, b) == QLt(b, a)

QAbs(a) == <<Abs(a[1]), a[2]>>

\* Binary floating point, as the float64 of numpy rounds the result of every
\* operation to the nearest value of 53 significant bits, ties to even.  The
\* model keeps Precision significant bits and no limit on the exponent.
Precision == 6

RECURSIVE Pow2(_)
Pow2(k) == IF k = 0 THEN 1 ELSE 2 * Pow2(k - 1)

\* The integer nearest to a / d (a >= 0, d > 0), ties to even.
RoundHalfEven(a, d) ==
    LET q == a \div d
        r == a % d
    IN  IF 2 * r < d THEN q
        ELSE IF 2 * r > d THEN q + 1
        ELSE IF q % 2 = 0 THEN q ELSE q + 1

\* a / d > 0 rounded to Precision significant bits.
RECURSIVE FloatPos(_, _)
FloatPos(a, d) ==
    IF a >= Pow2(Precision) * d THEN QMul(Q(2), FloatPos(a, 2 * d))
    ELSE IF a < Pow2(Precision - 1) * d THEN QDivInt(FloatPos(2 * a, d), 2)
    ELSE Q(RoundHalfEven(a, d))

\* The floating-point value nearest to x.
Float(x) ==
    IF IsNaN(x) THEN NaN
    ELSE IF x[1] = 0 THEN Q(0)
    ELSE IF x[1] > 0 THEN FloatPos(x[1], x[2])
    ELSE QSub(Q(0), FloatPos(0 - x[1], x[2]))

\* a + b and a - b in floating point.
FloatAdd(a, b) == Float(QAdd(a, b))

FloatSub(a, b) == Float(QSub(a, b))

----------------------------------------------------------------------------
(* Column operations of pandas used by the feature engineering.            *)

Rows(s) == 1..Len(s)

\* A shift that reaches one row too far.
ShiftOneMore(s, k) == [i \in Rows(s) |-> IF i > k + 1 THEN s[i - k - 1] ELSE NaN]

\* Series.shift(k): the value k rows earlier, NaN on the first k rows.
Shift(s, k) == [i \in Rows(s) |-> IF i > k THEN s[i - k] ELSE NaN]

\* A difference taken the other way round.
ColSubReversed(a, b) == [i \in Rows(a) |-> QSub(b[i], a[i])]

\* a - b, row by row
ColSub(a, b) == [i \in Rows(a) |-> QSub(a[i], b[i])]

RECURSIVE LastValid(_, _)
LastValid(s, i) ==
    IF i = 0 THEN NaN
    ELSE IF ~IsNaN(s[i]) THEN s[i]
    ELSE LastValid(s, i - 1)

\* Series.fillna(method='ffill')
FFill(s) == [i \in Rows(s) |-> LastValid(s, i)]

\* Series.fillna(v)
FillNa(s, v) == [i \in Rows(s) |-> IF IsNaN(s[i]) THEN v ELSE s[i]]

\* The non-missing rows of the trailing window of w rows ending at row i.
Window(s, i, w) ==
    {j \in (IF i > w THEN i - w + 1 ELSE 1)..i : ~IsNaN(s[j])}

RECURSIVE SumOver(_, _)
SumOver(s, J) ==
    IF J = {} THEN Q(0)
    ELSE LET j == CHOOSE x \in J : TRUE
         IN  QAdd(s[j], SumOver(s, J \ {j}))

\* Series.rolling(window=w, min_periods=m).mean()
RollingMean(s, w, m) ==
    [i \in Rows(s) |->
        LET J == Window(s, i, w)
        IN  IF Cardinality(J) < m THEN NaN
            ELSE QDivInt(SumOver(s, J), Cardinality(J))]

\* Series.rolling(window=w, min_periods=m).std(): the sample standard
\* deviation (ddof=1).  The cell holds the SQUARE of the standard deviation
\* (no square root is taken in exact arithmetic): it is NaN, respectively 0,
\* exactly when the standard deviation is.  A window of one point has
\* 0 / (1 - 1) = NaN.
RollingStd(s, w, m) ==
    [i \in Rows(s) |->
        LET J    == Window(s, i, w)
            n    == Cardinality(J)
            mean == QDivInt(SumOver(s, J), n)
            sq   == [j \in Rows(s) |->
                        QMul(QSub(s[j], mean), QSub(s[j], mean))]
        IN  IF n < m THEN NaN
            ELSE QDivInt(SumOver(sq, J), n - 1)]

\* Series.mean(), skipping NaN; NaN for an empty or all-NaN column.
ColMean(s) ==
    LET J == {j \in Rows(s) : ~IsNaN(s[j])}
    IN  QDivInt(SumOver(s, J), Cardinality(J))

\* (condition).astype(int)
AsInt(b) == IF b THEN Q(1) ELSE Q(0)

\* The run number of each row: (s != s.shift()).cumsum().  On the first row
\* s.shift() is NaN, which differs from every value.
RunId(s) ==
    [i \in Rows(s) |->
        Cardinality({j \in 1..i : j = 1 \/ s[j] # s[j - 1]})]

\* s.groupby(g).cumsum(): the running sum of s within the rows of equal g.
GroupCumSum(s, g) ==
    [i \in Rows(s) |-> SumOver(s, {j \in 1..i : g[j] = g[i]})]

\* s.groupby(g).cumcount(): how many earlier rows have the same g.
GroupCumCount(g) ==
    [i \in Rows(g) |-> Q(Cardinality({j \in 1..(i - 1) : g[j] = g[i]}))]

\* The row orders DataFrame.sort_values(key) may return: ascending in the key;
\* the default sort is not stable, so rows of equal key come in any order.
RECURSIVE SortedOrders(_, _)
SortedOrders(key, S) ==
    IF S = {} THEN {<<>>}
    ELSE LET least == {i \in S : \A j \in S : ~QLt(key[j], key[i])}
         IN  UNION {{<<i>> \o rest : rest \in SortedOrders(key, S \ {i})} :
                     i \in least}

\* A sort that leaves the rows where they are.
SortValuesNone(key) == {[i \in Rows(key) |-> i]}

SortValues(key) == SortedOrders(key, Rows(key))

\* A column taken in the row order p (p[i] is the old place of new row i).
Take(s, p) == [i \in Rows(p) |-> s[p[i]]]

----------------------------------------------------------------------------
(* Data frames.                                                            *)

Columns(d) == DOMAIN d.cols \cup d.opaque

NRows(d) == Len(d.cols["timestamp"])

\* No frame: nothing returned (yet).
NoFrame == [cols |-> <<>>, opaque |-> {}]

\* No meteorological function has been called.
NoMet == [temperature |-> <<>>, humidity |-> <<>>, u10 |-> <<>>, v10 |-> <<>>]

MetIdle == met = NoMet /\ met_call = "none" /\ met_result = <<>>

\* No ZenodoERA5Downloader exists.
NoDownload == [year_month |-> "", force |-> FALSE, outcome |-> "none",
               returned |-> "none"]

DownloadIdle == cache_files = <<>> /\ download = NoDownload

\* upload_to_zenodo_resume.py does not run.
UploadIdle ==
    /\ pc = "idle" /\ nc_files = {} /\ deposition_files = {}
    /\ failed_files = {} /\ metadata_added = "none" /\ published = FALSE

\* df[name] = v
Assign(cols, name, v) == (name :> v) @@ cols

\* A fill that forgot its .fillna(0).
FillFrameForwardOnly(cols) == [c \in DOMAIN cols |-> FFill(cols[c])]

\* df = df.fillna(method='ffill').fillna(0), column by column.
FillFrame(cols) == [c \in DOMAIN cols |-> FillNa(FFill(cols[c]), Q(0))]

----------------------------------------------------------------------------
(* src/app/utils/feature_engineering.py                                    *)

TempLagNames ==
    <<"sensor_temp_1h_ago", "sensor_temp_2h_ago", "sensor_temp_3h_ago",
      "sensor_temp_4h_ago", "sensor_temp_5h_ago", "sensor_temp_6h_ago">>

HumidityLagNames ==
    <<"humidity_1h_ago", "humidity_2h_ago", "humidity_3h_ago">>

SsrdLagNames == <<"ssrd_1h_ago", "ssrd_2h_ago">>

\* for lag in range(1, len(names) + 1): df[names[lag]] = base.shift(lag)
RECURSIVE AddLags(_, _, _, _)
AddLags(cols, names, base, lag) ==
    IF lag > Len(names) THEN cols
    ELSE AddLags(Assign(cols, names[lag], Shift(base, lag)),
                 names, base, lag + 1)

\* (t - 32) * 5/9
ToCelsius(t) == QDivInt(QMul(QSub(t, Q(32)), Q(5)), 9)

\* A streak that is never reset: the running count of the rows that
\* satisfied the condition.
StreakAppNoReset(cond) == [i \in Rows(cond) |-> SumOver(cond, 1..i)]

\* hot_streak / cold_streak: the 0/1 condition summed within its runs.
StreakApp(cond) == GroupCumSum(cond, RunId(cond))

\* The columns engineer_all_features adds whose values are not modelled.
AppOpaque(d) ==
    {"year", "month", "day", "hour", "day_of_month",
     "hour_sin", "hour_cos", "month_sin", "month_cos",
     "sensor_lat", "sensor_lon", "elevation_sensor", "life", "sensor_tcc",
     "humidity_squared", "temp_squared_sensor",
     "temp_humidity_product_sensor", "temp_life_interaction_sensor",
     "dewpoint_sensor", "dewpoint_depression_sensor",
     "vapor_pressure_deficit_sensor", "diurnal_radiation", "polar_day_night",
     "temp_range_3h", "temp_range_6h",
     "ssrd_sum_3h", "ssrd_sum_6h", "ssrd_change"}
    \cup (IF "u10" \notin Columns(d)
          THEN {"u10", "v10", "wind_speed", "wind_direction"} ELSE {})

\* The columns of engineer_all_features(df) before its last statement (the
\* fill), p being the row order its sort_values returns.
ComputeAllFeatures(d, p) ==
    LET c0   == d.cols
        raw  == c0["temperature"]
        \* if df['sensor temperature'].mean() > 50: Fahrenheit
        st0  == IF QGt(ColMean(raw), Q(50))
                THEN [i \in Rows(raw) |-> ToCelsius(raw[i])]
                ELSE raw
        c1   == Assign(c0, "sensor temperature", st0)
        \* df = df.sort_values('timestamp').reset_index(drop=True)
        c2   == [c \in DOMAIN c1 |-> Take(c1[c], p)]
        st   == c2["sensor temperature"]
        c3   == AddLags(c2, TempLagNames, st, 1)
        c4   == AddLags(c3, HumidityLagNames, c2["humidity"], 1)
        c5   == IF "ssrd" \in DOMAIN c2
                THEN AddLags(c4, SsrdLagNames, c2["ssrd"], 1)
                ELSE Assign(Assign(c4, "ssrd_1h_ago", [i \in Rows(st) |-> Q(0)]),
                            "ssrd_2h_ago", [i \in Rows(st) |-> Q(0)])
        ch1  == ColSub(st, c5["sensor_temp_1h_ago"])
        ch2  == ColSub(st, c5["sensor_temp_2h_ago"])
        ch3  == ColSub(st, c5["sensor_temp_3h_ago"])
        acc  == ColSub(ch1, Shift(ch1, 1))
        hot  == StreakApp([i \in Rows(st) |-> AsInt(QGt(st[i], Q(30)))])
        cold == StreakApp([i \in Rows(st) |-> AsInt(QLt(st[i], Q(10)))])
        new  == [temp_change_1h    |-> ch1,
                 temp_change_2h    |-> ch2,
                 temp_change_3h    |-> ch3,
                 temp_acceleration |-> acc,
                 temp_ma_3h   |-> RollingMean(st, 3, 1),
                 temp_ma_6h   |-> RollingMean(st, 6, 1),
                 temp_ma_12h  |-> RollingMean(st, 12, 1),
                 temp_std_3h  |-> FillNa(RollingStd(st, 3, 1), Q(0)),
                 temp_std_6h  |-> FillNa(RollingStd(st, 6, 1), Q(0)),
                 temp_std_12h |-> FillNa(RollingStd(st, 12, 1), Q(0)),
                 temp_trend_3h |-> RollingMean(ch1, 3, 1),
                 temp_trend_6h |-> RollingMean(ch1, 6, 1),
                 hot_streak   |-> hot,
                 cold_streak  |-> cold,
                 is_hot  |-> [i \in Rows(st) |-> AsInt(QGt(st[i], Q(30)))],
                 is_cold |-> [i \in Rows(st) |-> AsInt(QLt(st[i], Q(10)))]]
    IN  new @@ c5

\* engineer_all_features(df), p being the row order its sort_values returns.
EngineerAllFeatures(d, p) ==
    [cols   |-> FillFrame(ComputeAllFeatures(d, p)),
     opaque |-> d.opaque \cup AppOpaque(d)]

\* get_feature_list(): the 63 published feature names, in order.
GetFeatureList ==
    <<"day", "elevation_sensor", "humidity", "life", "sensor_lat", "sensor_lon",
      "sensor_tcc", "sensor temperature", "year", "sshf", "ssrd", "strd", "tp",
      "humidity_squared", "temp_squared_sensor", "temp_humidity_product_sensor",
      "temp_life_interaction_sensor", "dewpoint_sensor",
      "dewpoint_depression_sensor", "vapor_pressure_deficit_sensor",
      "hour_sin", "hour_cos", "month_sin", "month_cos",
      "diurnal_radiation", "polar_day_night", "day_of_month",
      "sensor_temp_1h_ago", "sensor_temp_2h_ago", "sensor_temp_3h_ago",
      "sensor_temp_4h_ago", "sensor_temp_5h_ago", "sensor_temp_6h_ago",
      "humidity_1h_ago", "humidity_2h_ago", "humidity_3h_ago",
      "ssrd_1h_ago", "ssrd_2h_ago",
      "temp_change_1h", "temp_change_2h", "temp_change_3h", "temp_acceleration",
      "temp_ma_3h", "temp_ma_6h", "temp_ma_12h",
      "temp_std_3h", "temp_std_6h", "temp_std_12h",
      "temp_range_3h", "temp_range_6h",
      "temp_trend_3h", "temp_trend_6h",
      "ssrd_sum_3h", "ssrd_sum_6h", "ssrd_change",
      "hot_streak", "cold_streak",
      "u10", "v10", "wind_speed", "wind_direction",
      "is_hot", "is_cold">>

----------------------------------------------------------------------------
(* src/data/feature_engineering.py                                         *)

\* The k-th smallest (k from 1) of the non-missing values of a column.
KthSmallest(s, k) ==
    LET J == {j \in Rows(s) : ~IsNaN(s[j])}
    IN  CHOOSE v \in {s[j] : j \in J} :
            /\ Cardinality({j \in J : QLt(s[j], v)}) < k
            /\ k <= Cardinality({j \in J : ~QGt(s[j], v)})

\* Series.quantile(num/4): linear interpolation between the two nearest
\* order statistics of the non-missing values; NaN when there is none.
Quantile(s, num) ==
    LET n  == Cardinality({j \in Rows(s) : ~IsNaN(s[j])})
        lo == ((n - 1) * num) \div 4
        fr == ((n - 1) * num) % 4
    IN  IF n = 0 THEN NaN
        ELSE IF fr = 0 THEN KthSmallest(s, lo + 1)
        ELSE QAdd(KthSmallest(s, lo + 1),
                  QDivInt(QMul(QSub(KthSmallest(s, lo + 2),
                                    KthSmallest(s, lo + 1)), Q(fr)), 4))

\* self.temp_thresholds of FeatureEngineer.__init__
ZoneThresholds ==
    [Arid        |-> [p25 |-> Q(15), p75 |-> Q(30)],
     Temperate   |-> [p25 |-> Q(10), p75 |-> Q(25)],
     Continental |-> [p25 |-> Q(5),  p75 |-> Q(22)]]

\* The thresholds of create_thermal_persistence and
\* create_stratification_indicators: the zone's table entry, else the
\* quantiles of the frame ("" stands for climate_zone None).
Thresholds(d, zone) ==
    IF zone # "" /\ zone \in DOMAIN ZoneThresholds
    THEN ZoneThresholds[zone]
    ELSE [p25 |-> Quantile(d.cols["temperature"], 1),
          p75 |-> Quantile(d.cols["temperature"], 3)]

DataTempLagNames ==
    <<"temp_1h", "temp_2h", "temp_3h", "temp_4h", "temp_5h", "temp_6h">>

DataHumidityLagNames == <<"humidity_1h", "humidity_2h", "humidity_3h">>

DataSsrdLagNames == <<"SSRD_1h", "SSRD_2h">>

\* create_lagged_features(data)
CreateLaggedFeatures(d) ==
    LET c1 == AddLags(d.cols, DataTempLagNames, d.cols["temperature"], 1)
        c2 == AddLags(c1, DataHumidityLagNames, d.cols["humidity"], 1)
        c3 == AddLags(c2, DataSsrdLagNames, d.cols["SSRD"], 1)
    IN  [d EXCEPT !.cols = c3]

\* trend_func over the raw window ending at row i: the least-squares slope of
\* the window's values against 0..len-1 (np.polyfit, deg=1).  rolling(...,
\* min_periods=2) gives NaN below two non-missing values; a window that holds
\* a missing value has no finite fit.
TrendAt(s, i, w) ==
    LET first == IF i > w THEN i - w + 1 ELSE 1
        n     == i - first + 1
        X     == [j \in Rows(s) |-> Q(j - first)]
        XY    == [j \in Rows(s) |-> QMul(X[j], s[j])]
        XX    == [j \in Rows(s) |-> QMul(X[j], X[j])]
        J     == first..i
        num   == QSub(QMul(Q(n), SumOver(XY, J)),
                      QMul(SumOver(X, J), SumOver(s, J)))
        den   == QSub(QMul(Q(n), SumOver(XX, J)),
                      QMul(SumOver(X, J), SumOver(X, J)))
    IN  IF Cardinality(Window(s, i, w)) < 2 THEN NaN
        ELSE IF IsNaN(num) THEN NaN
        ELSE QDivInt(num, den[1])

\* _calculate_rolling_trend(series, window)
CalculateRollingTrend(s, w) == [i \in Rows(s) |-> TrendAt(s, i, w)]

\* create_rolling_features(data)
CreateRollingFeatures(d) ==
    LET t   == d.cols["temperature"]
        new == [temp_ma_3h  |-> RollingMean(t, 3, 1),
                temp_ma_6h  |-> RollingMean(t, 6, 1),
                temp_ma_12h |-> RollingMean(t, 12, 1),
                temp_sd_3h  |-> RollingStd(t, 3, 1),
                temp_sd_6h  |-> RollingStd(t, 6, 1),
                temp_sd_12h |-> RollingStd(t, 12, 1),
                temp_trend_3h |-> CalculateRollingTrend(t, 3),
                temp_trend_6h |-> CalculateRollingTrend(t, 6)]
    IN  [cols   |-> new @@ d.cols,
         opaque |-> d.opaque \cup {"temp_range_3h", "temp_range_6h"}]

\* create_change_indicators(data)
CreateChangeIndicators(d) ==
    LET t   == d.cols["temperature"]
        ch1 == ColSub(t, Shift(t, 1))
        new == [temp_change_1h |-> ch1,
                temp_change_2h |-> ColSub(t, Shift(t, 2)),
                temp_change_3h |-> ColSub(t, Shift(t, 3)),
                temp_accel     |-> ColSub(ch1, Shift(ch1, 1))]
    IN  [d EXCEPT !.cols = new @@ d.cols]

\* create_cumulative_radiation(data)
CreateCumulativeRadiation(d) ==
    [d EXCEPT !.opaque = @ \cup {"SSRD_sum_3h", "SSRD_sum_6h", "SSRD_change"}]

\* _calculate_streak(condition): the place within the run (cumcount + 1)
\* times the 0/1 condition.
CalculateStreak(cond) ==
    LET streak == [i \in Rows(cond) |-> AsInt(cond[i])]
        count  == GroupCumCount(RunId(streak))
    IN  [i \in Rows(cond) |-> QMul(QAdd(count[i], Q(1)), streak[i])]

\* create_thermal_persistence(data)
CreateThermalPersistence(d, zone) ==
    LET t   == d.cols["temperature"]
        th  == Thresholds(d, zone)
        new == [hot_streak  |->
                    CalculateStreak([i \in Rows(t) |-> QGt(t[i], th.p75)]),
                cold_streak |->
                    CalculateStreak([i \in Rows(t) |-> QLt(t[i], th.p25)])]
    IN  [d EXCEPT !.cols = new @@ d.cols]

\* create_derived_meteorology(data)
CreateDerivedMeteorology(d) ==
    [d EXCEPT !.opaque = @ \cup {"wind_speed", "wind_dir", "dewpoint",
                                 "dewpoint_dep", "VPD"}]

\* create_engineered_terms(data)
CreateEngineeredTerms(d) ==
    [d EXCEPT !.opaque = @ \cup {"temp_squared", "humidity_squared",
                                 "temp_x_humidity"}
                           \cup (IF "life" \in Columns(d)
                                 THEN {"temp_x_life"} ELSE {})]

\* create_stratification_indicators(data)
CreateStratificationIndicators(d, zone) ==
    LET t   == d.cols["temperature"]
        th  == Thresholds(d, zone)
        new == [is_hot  |-> [i \in Rows(t) |-> AsInt(QGt(t[i], th.p75))],
                is_cold |-> [i \in Rows(t) |-> AsInt(QLt(t[i], th.p25))]]
    IN  [d EXCEPT !.cols = new @@ d.cols]

\* pd.merge(sensor_data, era5_data, on="timestamp", how="inner"): the rows of
\* sensor_data in their order, each with the ERA5 row of its hour (era5_data
\* has one row for every hour).
Merge(d) ==
    [cols   |-> [timestamp   |-> d.cols["timestamp"],
                 temperature |-> d.cols["temperature"],
                 humidity    |-> d.cols["humidity"],
                 SSRD        |-> d.cols["ssrd"]],
     opaque |-> {"STRD", "SSHF", "u10", "v10"}]

\* engineer_features(sensor_data, era5_data, climate_zone)
EngineerFeatures(d, zone) ==
    CreateStratificationIndicators(
     CreateEngineeredTerms(
      CreateDerivedMeteorology(
       CreateThermalPersistence(
        CreateCumulativeRadiation(
         CreateChangeIndicators(
          CreateRollingFeatures(
           CreateLaggedFeatures(Merge(d))))), zone))), zone)

\* The climate zones of the calls: none, one of the table, one not in it.
ClimateZones == {"", "Temperate", "Tropical"}

----------------------------------------------------------------------------
(* The trained models: opaque regression functions behind predict.         *)

NoObject == [models |-> <<>>]

\* A trained model: the number of features it was fitted on and, standing
\* for the fitted function, a line over the feature at place "on".
MakeModel(n, on, intercept, slope) ==
    [n_features_in |-> n, on |-> on, intercept |-> intercept, slope |-> slope]

\* model.predict(X) for one feature vector X: "raise" when the vector has not
\* the number of features the model was fitted on, else the predicted value,
\* a float.
Predict(model, X) ==
    IF Len(X) # model.n_features_in THEN [raised |-> TRUE, value |-> NaN]
    ELSE [raised |-> FALSE,
          value  |-> Float(QAdd(model.intercept,
                                QMul(model.slope, X[model.on])))]

\* The value of a cell whose column is carried by name only.
Unmodelled == Q(0)

\* row[names].values: the cells of row i under the names, in their order.
FeatureVector(d, i, names) ==
    [k \in 1..Len(names) |->
        IF names[k] \in DOMAIN d.cols THEN d.cols[names[k]][i] ELSE Unmodelled]

\* Indexing a frame or a row by names raises KeyError when one is no column.
KeyError(d, names) == \E k \in 1..Len(names) : names[k] \notin Columns(d)

----------------------------------------------------------------------------
(* src/app/utils/model_predictor.py                                        *)

\* MODELS: the regimes that have a model file.
ModelNames == {"cold", "normal", "hot"}

\* The place of 'sensor temperature' in the published feature list.
SensorTempPlace ==
    CHOOSE k \in 1..Len(GetFeatureList) : GetFeatureList[k] = "sensor temperature"

\* The models shipped with the app, fitted on the 63 published features;
\* they predict the station temperature.
AppModel(name) ==
    MakeModel(Len(GetFeatureList), SensorTempPlace,
              IF name = "cold" THEN Q(1) ELSE IF name = "hot" THEN Q(-4) ELSE Q(-2),
              IF name = "normal" THEN <<9, 10>> ELSE Q(1))

\* A regime whose thresholds belong to the extreme regimes.
DetermineTemperatureRegimeInclusive(temperature) ==
    IF ~QGt(temperature, Q(10)) THEN "cold"
    ELSE IF ~QLt(temperature, Q(30)) THEN "hot"
    ELSE "normal"

\* determine_temperature_regime(temperature)
DetermineTemperatureRegime(temperature) ==
    IF QLt(temperature, Q(10)) THEN "cold"
    ELSE IF QGt(temperature, Q(30)) THEN "hot"
    ELSE "normal"

\* A calibrator that takes the prediction as the bias of the sensor.
PredictedTemperatureAsBias(sensor_temp, prediction) ==
    FloatSub(sensor_temp, prediction)

\* calibrated_temp = model.predict(features)[0]: the prediction is taken as
\* the calibrated temperature.
PredictedTemperature(sensor_temp, prediction) == prediction

\* df_result['sensor temperature'] - df_result['calibrated_temperature']
CalibrationCorrection(sensor_temp, calibrated_temp) ==
    FloatSub(sensor_temp, calibrated_temp)

\* model = self.models[regime], outside the try block: KeyError leaves
\* calibrate when a row's regime has no model.
LookupError(t, d) ==
    IF \E i \in Rows(d.cols["sensor temperature"]) :
          DetermineTemperatureRegime(d.cols["sensor temperature"][i])
              \notin DOMAIN t.models
    THEN "KeyError" ELSE ""

\* A lookup that takes whatever model the registry holds.
RegisteredModelAny(t, regime) ==
    t.models[CHOOSE name \in DOMAIN t.models : TRUE]

\* model = self.models[regime]
RegisteredModel(t, regime) == t.models[regime]

\* The body of the loop of calibrate for row i: the regime, the prediction
\* and whether the try block raised.
CalibrateRow(t, d, i, feature_list) ==
    LET sensor_temp == d.cols["sensor temperature"][i]
        regime      == DetermineTemperatureRegime(sensor_temp)
        model       == RegisteredModel(t, regime)
        pred        == Predict(model, FeatureVector(d, i, feature_list))
        raised      == KeyError(d, feature_list) \/ pred.raised
    IN  [regime |-> regime,
         raised |-> raised,
         \* except: calibrated_temps.append(sensor_temp)
         calibrated_temp |-> IF raised THEN sensor_temp
                             ELSE PredictedTemperature(sensor_temp, pred.value)]

\* TemperatureCalibrator.calibrate(df_features, feature_list).  The fields
\* raised and feature_list are not columns of the code's frame: they record
\* the rows whose try block raised and the list the call was given.
Calibrate(t, d, feature_list) ==
    LET st   == d.cols["sensor temperature"]
        rows == [i \in Rows(st) |-> CalibrateRow(t, d, i, feature_list)]
        cal  == [i \in Rows(st) |-> rows[i].calibrated_temp]
    IN  [cols   |-> [calibrated_temperature |-> cal,
                     calibration_correction |->
                         [i \in Rows(st) |-> CalibrationCorrection(st[i], cal[i])]]
                    @@ d.cols,
         opaque |-> d.opaque,
         temperature_regime |->
             [i \in Rows(st) |-> DetermineTemperatureRegime(st[i])],
         raised |-> [i \in Rows(st) |-> rows[i].raised],
         feature_list |-> feature_list]

\* TemperatureCalibrator(): _load_models raises FileNotFoundError for the
\* first missing file, IOError for the first one that fails to load; files
\* maps each model file to "ok", "missing" or "corrupt".
LoadOrder == <<"cold", "normal", "hot">>

\* A loader that goes on past a file it cannot load.
LoadModelsLenient(files, k) == ""

RECURSIVE LoadModels(_, _)
LoadModels(files, k) ==
    IF k > Len(LoadOrder) THEN ""
    ELSE IF files[LoadOrder[k]] = "missing" THEN "FileNotFoundError"
    ELSE IF files[LoadOrder[k]] = "corrupt" THEN "IOError"
    ELSE LoadModels(files, k + 1)

\* self.models when _load_models is left: the models of the files of order
\* that were loaded, those before the first file that is missing or
\* unreadable.
LoadedModels(files, order, models) ==
    [name \in {order[j] : j \in {k \in 1..Len(order) :
                                    \A i \in 1..k : files[order[i]] = "ok"}}
        |-> models[name]]

----------------------------------------------------------------------------
(* src/models/calibration.py                                               *)

Strata == <<"cold", "moderate", "hot">>

\* The models of results/models: fitted on two features, they predict the
\* bias of the sensor.
LibModel(stratum) ==
    MakeModel(2, 1,
              IF stratum = "cold" THEN Q(1)
              ELSE IF stratum = "hot" THEN <<3, 2>> ELSE Q(2),
              IF stratum = "moderate" THEN <<1, 10>> ELSE Q(0))

NoThresholds == <<>>

\* No metadata.json read (yet).
NoMetadata ==
    [present |-> FALSE, temp_thresholds |-> NoThresholds, feature_names |-> <<>>]

\* _validate_input(data)
ValidateInput(d) ==
    IF {"temperature", "humidity", "timestamp"} \subseteq Columns(d)
    THEN "" ELSE "ValueError"

\* The thresholds _assign_strata leaves in self.temp_thresholds.
ThresholdsAfter(c, d) ==
    IF c.temp_thresholds = NoThresholds
    THEN [p25 |-> Quantile(d.cols["temperature"], 1),
          p75 |-> Quantile(d.cols["temperature"], 3)]
    ELSE c.temp_thresholds

\* A stratum whose thresholds belong to the extreme strata.
StratumOfInclusive(t, th) ==
    IF ~QGt(t, th.p25) THEN "cold"
    ELSE IF ~QLt(t, th.p75) THEN "hot"
    ELSE "moderate"

\* np.select([t < p25, t > p75], ["cold", "hot"], default="moderate")
StratumOf(t, th) ==
    IF QLt(t, th.p25) THEN "cold"
    ELSE IF QGt(t, th.p75) THEN "hot"
    ELSE "moderate"

\* _assign_strata(data): the stratum column.
AssignStrata(c, d) ==
    [i \in Rows(d.cols["temperature"]) |->
        StratumOf(d.cols["temperature"][i], ThresholdsAfter(c, d))]

\* A selection that keeps only the first row of a stratum.
RowsOfOnce(strata, stratum, i) ==
    IF \E k \in i..Len(strata) : strata[k] = stratum
    THEN <<CHOOSE k \in i..Len(strata) :
              /\ strata[k] = stratum
              /\ \A l \in i..(k - 1) : strata[l] # stratum>>
    ELSE <<>>

\* The rows of a stratum, in the order of the frame.
RECURSIVE RowsOf(_, _, _)
RowsOf(strata, stratum, i) ==
    IF i > Len(strata) THEN <<>>
    ELSE (IF strata[i] = stratum THEN <<i>> ELSE <<>>)
         \o RowsOf(strata, stratum, i + 1)

\* A calibration that adds the bias.
CalibratedTemperatureAdd(temperature, bias_pred) ==
    FloatAdd(temperature, bias_pred)

\* stratum_data["temperature"] - bias_pred
CalibratedTemperature(temperature, bias_pred) ==
    FloatSub(temperature, bias_pred)

\* The exception the loop over the strata raises, from stratum k on: KeyError
\* from stratum_data[self.feature_names], or the error of predict.
RECURSIVE LoopError(_, _, _, _)
LoopError(c, d, strata, k) ==
    IF k > Len(Strata) THEN ""
    ELSE IF RowsOf(strata, Strata[k], 1) = <<>>
         THEN LoopError(c, d, strata, k + 1)
    ELSE IF KeyError(d, c.feature_names) THEN "KeyError"
    ELSE IF Strata[k] \notin DOMAIN c.models THEN "KeyError"
    ELSE IF Len(c.feature_names) # c.models[Strata[k]].n_features_in
         THEN "PredictError"
    ELSE LoopError(c, d, strata, k + 1)

\* The exception calibrate(data) raises, "" if none.  pd.concat raises
\* ValueError when no stratum had a row.
CalibrateError(c, d) ==
    IF ValidateInput(d) # "" THEN ValidateInput(d)
    ELSE IF LoopError(c, d, AssignStrata(c, d), 1) # ""
         THEN LoopError(c, d, AssignStrata(c, d), 1)
    ELSE IF NRows(d) = 0 THEN "ValueError"
    ELSE ""

\* calibrate(data) when nothing raises: the rows of the cold, the moderate
\* and the hot stratum one after another (pd.concat, ignore_index).  The
\* field src is not a column of the code's frame: it is the place each
\* result row had in data.
CalibrateFrame(c, d) ==
    LET strata == AssignStrata(c, d)
        src    == RowsOf(strata, "cold", 1) \o RowsOf(strata, "moderate", 1)
                  \o RowsOf(strata, "hot", 1)
        bias   == [j \in Rows(src) |->
                     Predict(c.models[strata[src[j]]],
                             FeatureVector(d, src[j], c.feature_names)).value]
        taken  == [col \in DOMAIN d.cols |-> Take(d.cols[col], src)]
    IN  [cols    |-> [temperature_bias       |-> bias,
                      temperature_calibrated |->
                          [j \in Rows(src) |->
                              CalibratedTemperature(taken["temperature"][j],
                                                    bias[j])]] @@ taken,
         opaque  |-> d.opaque,
         stratum |-> [j \in Rows(src) |-> strata[src[j]]],
         src     |-> src]

\* TemporalTempStratCalibrator(model_path): the exception __init__ raises.
\* Without a path _get_default_model_path raises NotImplementedError; a
\* missing model file raises FileNotFoundError in _load_models.
ConstructError(model_path, files) ==
    IF model_path = "" THEN "NotImplementedError"
    ELSE IF \E f \in DOMAIN files : files[f] = "missing"
         THEN "FileNotFoundError"
    ELSE ""

\* The calibrator __init__ leaves, with the entries of metadata.json.
NewCalibrator(meta) ==
    [models          |-> [x \in {"cold", "moderate", "hot"} |-> LibModel(x)],
     temp_thresholds |-> meta.temp_thresholds,
     feature_names   |-> meta.feature_names]

\* data[sensor_id_column].unique(): the sensor ids in order of appearance.
RECURSIVE Unique(_, _)
Unique(s, i) ==
    IF i > Len(s) THEN <<>>
    ELSE (IF \E k \in 1..(i - 1) : s[k] = s[i] THEN <<>> ELSE <<s[i]>>)
         \o Unique(s, i + 1)

\* data[data[sensor_id_column] == sensor_id]
SensorData(d, sensor_id) ==
    LET rows == RowsOf(d.cols["sensor_id"], sensor_id, 1)
    IN  [cols   |-> [c \in DOMAIN d.cols |-> Take(d.cols[c], rows)],
         opaque |-> d.opaque]

\* The calls of process_sensor, one sensor after the other on the same
\* calibrator: the frames returned and the first exception raised.
RECURSIVE ProcessSensors(_, _, _)
ProcessSensors(c, d, sensor_ids) ==
    IF sensor_ids = <<>> THEN [error |-> "", results |-> <<>>]
    ELSE LET sensor_data == SensorData(d, Head(sensor_ids))
             error       == CalibrateError(c, sensor_data)
             after       == [c EXCEPT !.temp_thresholds =
                                ThresholdsAfter(c, sensor_data)]
             rest        == ProcessSensors(after, d, Tail(sensor_ids))
         IN  IF error # "" THEN [error |-> error, results |-> <<>>]
             ELSE [error   |-> rest.error,
                   results |-> <<CalibrateFrame(c, sensor_data)>>
                               \o rest.results]

\* pd.concat(results, ignore_index=True)
RECURSIVE Concat(_, _)
Concat(results, col) ==
    IF results = <<>> THEN <<>>
    ELSE Head(results).cols[col] \o Concat(Tail(results), col)

\* batch_calibrate(data, model_type=type): the exception and the frame.
\* The default constructors come first: TemporalTempStratCalibrator() has no
\* model path and TemporalNationalCalibrator() cannot load its model.
BatchCalibrateReturn(d, type, meta) ==
    LET error == IF "sensor_id" \notin Columns(d) THEN "KeyError"
                 ELSE IF type = "temporal_tempstrat"
                      THEN ConstructError("", <<>>)
                 ELSE IF type = "temporal_national"
                      THEN "NotImplementedError"
                 ELSE "ValueError"
        done  == ProcessSensors(NewCalibrator(meta), d,
                                Unique(d.cols["sensor_id"], 1))
    IN  IF error # "" THEN [error |-> error, result |-> NoFrame]
        ELSE IF done.error # "" THEN [error |-> done.error, result |-> NoFrame]
        ELSE [error  |-> "",
              result |-> [cols   |-> [col \in DOMAIN Head(done.results).cols |->
                                         Concat(done.results, col)],
                          opaque |-> d.opaque]]

----------------------------------------------------------------------------
(* Inputs.                                                                 *)

\* Rows of the short input frames.
MaxLen == 3

\* The deepest lag of the feature list: range(1, 7).
MaxTempLag == 6

\* Hours of the observations of the short frames: two hours apart, in any
\* order and repeated.
TimeStamps == {1, 3}

\* Readings of the short frames: cold (5), a Fahrenheit reading (95, that is
\* 35 Celsius) and a missing one.
TempValues == {Q(5), Q(95), NaN}

\* ERA5 solar radiation (ssrd) of an hour; the humidity read at an input row.
SsrdAt(t) == Q(100 * t)

HumidityAt(i) == Q(40 + 5 * i)

InputOpaque == {"latitude", "longitude", "sshf", "strd", "tp",
                "u10", "v10", "wind_speed", "wind_direction"}

MakeFrame(ts, temp) ==
    [cols   |-> [timestamp   |-> [i \in Rows(ts) |-> Q(ts[i])],
                 temperature |-> temp,
                 humidity    |-> [i \in Rows(ts) |-> HumidityAt(i)],
                 ssrd        |-> [i \in Rows(ts) |-> SsrdAt(ts[i])]],
     opaque |-> InputOpaque]

\* Short frames: any order of the hours, repeated hours, missing readings.
ShortFrames ==
    UNION {{MakeFrame(ts, temp) :
              ts \in [1..n -> TimeStamps], temp \in [1..n -> TempValues]} :
           n \in 1..MaxLen}

\* Long frames, one row more than the deepest lag: hourly or every other hour
\* with one longer gap, the readings cold (5) or hot (35).
LongFrames ==
    {MakeFrame([i \in 1..(MaxTempLag + 1) |-> IF g = 1 THEN i
                                               ELSE IF i < 4 THEN 2 * i
                                               ELSE 2 * i + 5],
               temp) :
        g \in {1, 2}, temp \in [1..(MaxTempLag + 1) -> {Q(5), Q(35)}]}

\* Hourly frames of readings on the thresholds 10 and 30.
ThresholdFrames ==
    UNION {{MakeFrame([i \in 1..n |-> i], temp) :
              temp \in [1..n -> {Q(10), Q(30)}]} :
           n \in 1..MaxLen}

----------------------------------------------------------------------------
(* Feature engineering: one call on one input frame.                       *)

InitFE ==
    /\ program = "features"
    /\ df \in ShortFrames \cup LongFrames \cup ThresholdFrames
    /\ call = "none"
    /\ climate_zone = ""
    /\ out = NoFrame
    /\ tc = NoObject /\ tc_error = "" /\ tc_result = NoFrame
    /\ ttsc = NoObject /\ ttsc_error = "" /\ ttsc_result = NoFrame
    /\ metadata = NoMetadata /\ series = "A"
    /\ batch_error = "" /\ batch_result = NoFrame /\ model_type = ""
    /\ MetIdle /\ DownloadIdle /\ UploadIdle

\* engineer = FeatureEngineer(); engineer.engineer_all_features(df)
CallEngineerAllFeatures ==
    /\ program \in {"features", "app"}
    /\ call = "none"
    /\ \E p \in SortValues(df.cols["timestamp"]) :
          out' = EngineerAllFeatures(df, p)
    /\ call' = "engineer_all_features"
    /\ UNCHANGED <<program, df, climate_zone, appVars, libVars, batchVars,
                   metVars, downloadVars, uploadVars>>

\* engineer_features(sensor_data, era5_data, climate_zone)
CallEngineerFeatures ==
    /\ program = "features"
    /\ call = "none"
    /\ \E zone \in ClimateZones :
          /\ climate_zone' = zone
          /\ out' = EngineerFeatures(df, zone)
    /\ call' = "engineer_features"
    /\ UNCHANGED <<program, df, appVars, libVars, batchVars,
                   metVars, downloadVars, uploadVars>>

NextFE == CallEngineerAllFeatures \/ CallEngineerFeatures

SpecFE == InitFE /\ [][NextFE]_vars

----------------------------------------------------------------------------
(* The calibration pipelines.                                              *)

\* The readings of the calibrated frames: cold, on either threshold, hot.
CalTemps == {Q(5), Q(10), Q(30), Q(35)}

\* The frame a caller hands over: with the wind columns of ERA5Reader
\* ("era5"), with u10 and v10 only ("uv", as the test frame of
\* model_predictor.py), or with none ("none").
WithWind(d, wind) ==
    [d EXCEPT !.opaque =
        (@ \ {"u10", "v10", "wind_speed", "wind_direction"})
        \cup (IF wind = "era5"
              THEN {"u10", "v10", "wind_speed", "wind_direction"}
              ELSE IF wind = "uv" THEN {"u10", "v10"} ELSE {})]

\* The hours of a calibrated frame of n rows: hourly, hourly in reverse
\* order, or hourly with the first hour twice.
CalHours(n) ==
    {[i \in 1..n |-> i],
     [i \in 1..n |-> n + 1 - i],
     [i \in 1..n |-> IF i = 1 THEN 1 ELSE i - 1]}

CalFrames ==
    UNION {{MakeFrame(ts, temp) :
              ts \in CalHours(n), temp \in [1..n -> CalTemps]} :
           n \in 1..MaxLen}

\* The frames of a second Series given to the same calibrator: two hourly
\* readings.
SecondFrames ==
    {MakeFrame([i \in 1..2 |-> i], temp) : temp \in [1..2 -> CalTemps]}

\* The frames given to batch_calibrate: the rows of sensors 1 and 2 in any
\* interleaving, each sensor's rows hourly, the readings cold (5) or hot (35);
\* and frames without a sensor_id column.
BatchFrames ==
    UNION {{[cols   |-> ("sensor_id" :> sid)
                        @@ MakeFrame([i \in 1..n |->
                                         Cardinality({k \in 1..i :
                                                         sid[k] = sid[i]})],
                                     temp).cols,
             opaque |-> InputOpaque] :
              sid \in [1..n -> {Q(1), Q(2)}], temp \in [1..n -> {Q(5), Q(35)}]} :
           n \in 1..MaxLen}
    \cup {d \in CalFrames : NRows(d) = 1}

\* The values given as model_type.
ModelTypes == {"temporal_tempstrat", "temporal_national", "other"}

\* The test frame of model_predictor.py: ten hourly readings.
ScenarioTemps == <<8, 12, 18, 25, 32, 28, 22, 15, 10, 5>>

ScenarioFrame ==
    [cols   |-> [timestamp   |-> [i \in Rows(ScenarioTemps) |-> Q(i)],
                 temperature |-> [i \in Rows(ScenarioTemps) |->
                                     Q(ScenarioTemps[i])],
                 humidity    |-> [i \in Rows(ScenarioTemps) |-> Q(50)],
                 ssrd        |-> [i \in Rows(ScenarioTemps) |-> Q(500)]],
     opaque |-> {"latitude", "longitude", "sshf", "strd", "tp", "u10", "v10"}]

\* The feature lists handed to TemperatureCalibrator.calibrate: the published
\* one, and one that lost its last name.
FeatureLists ==
    {GetFeatureList, SubSeq(GetFeatureList, 1, Len(GetFeatureList) - 1)}

\* metadata.json of the model directory: absent, or its two entries.
Metadata ==
    {NoMetadata,
     [present |-> TRUE,  temp_thresholds |-> [p25 |-> Q(10), p75 |-> Q(30)],
      feature_names |-> <<"temperature", "humidity">>],
     [present |-> TRUE,  temp_thresholds |-> NoThresholds,
      feature_names |-> <<"temperature", "humidity">>],
     [present |-> TRUE,  temp_thresholds |-> NoThresholds,
      feature_names |-> <<"temperature", "elevation">>]}

\* The state of the model files on disk: all of them fine, or one of them
\* missing or unreadable.
ModelFiles(names, states) ==
    {[n \in names |-> "ok"]}
    \cup {[n \in names |-> IF n = bad THEN st ELSE "ok"] :
             bad \in names, st \in states \ {"ok"}}

Init ==
    /\ \/ /\ program \in {"app", "lib"}
          /\ df \in CalFrames
                    \cup {WithWind(d, wind) :
                             d \in {x \in CalFrames : NRows(x) = 1},
                             wind \in {"uv", "none"}}
                    \cup {ScenarioFrame}
       \/ /\ program = "batch"
          /\ df \in BatchFrames
    /\ call = "none"
    /\ climate_zone = ""
    /\ out = NoFrame
    /\ tc = NoObject /\ tc_error = "" /\ tc_result = NoFrame
    /\ ttsc = NoObject /\ ttsc_error = "" /\ ttsc_result = NoFrame
    /\ metadata = NoMetadata /\ series = "A"
    /\ batch_error = "" /\ batch_result = NoFrame /\ model_type = ""
    /\ MetIdle /\ DownloadIdle /\ UploadIdle

\* calibrator = TemperatureCalibrator()
ConstructTemperatureCalibrator ==
    /\ program = "app"
    /\ call = "engineer_all_features"
    /\ tc = NoObject /\ tc_error = ""
    /\ \E files \in ModelFiles(ModelNames, {"ok", "missing", "corrupt"}) :
          /\ tc_error' = LoadModels(files, 1)
          /\ tc' = IF LoadModels(files, 1) = ""
                   THEN [models |->
                            LoadedModels(files, LoadOrder,
                                         [name \in ModelNames |->
                                             AppModel(name)])]
                   ELSE NoObject
    /\ UNCHANGED <<program, df, call, climate_zone, out, tc_result, libVars,
                   batchVars,
                   metVars, downloadVars, uploadVars>>

\* calibrator.calibrate(df_features, feature_list)
TemperatureCalibratorCalibrate ==
    /\ program = "app"
    /\ tc # NoObject
    /\ tc_result = NoFrame /\ tc_error = ""
    /\ \E feature_list \in FeatureLists :
          /\ tc_error' = LookupError(tc, out)
          /\ tc_result' = IF LookupError(tc, out) # "" THEN NoFrame
                           ELSE Calibrate(tc, out, feature_list)
    /\ UNCHANGED <<program, df, call, climate_zone, out, tc, libVars, batchVars,
                   metVars, downloadVars, uploadVars>>

\* TemporalTempStratCalibrator(model_path): without a path
\* _get_default_model_path raises; a missing model file raises
\* FileNotFoundError; metadata.json is read when it exists.
ConstructTemporalTempStratCalibrator ==
    /\ program = "lib"
    /\ ttsc = NoObject /\ ttsc_error = ""
    /\ \E model_path \in {"", "results/models/temporal_tempstrat"},
          files \in ModelFiles({"cold", "moderate", "hot"}, {"ok", "missing"}),
          meta \in Metadata :
          LET error == ConstructError(model_path, files)
          IN  /\ ttsc_error' = error
              /\ ttsc' = IF error # "" THEN NoObject
                         ELSE [NewCalibrator(meta) EXCEPT
                                  !.models = LoadedModels(files, Strata, @)]
              /\ metadata' = IF error # "" THEN metadata ELSE meta
    /\ UNCHANGED <<program, df, call, climate_zone, out, appVars, ttsc_result,
                   series, batchVars,
                   metVars, downloadVars, uploadVars>>

\* calibrator.calibrate(data): _assign_strata stores the thresholds it
\* computed in the calibrator before anything can raise in the loop.
TemporalTempStratCalibratorCalibrate ==
    /\ program = "lib"
    /\ ttsc # NoObject
    /\ ttsc_result = NoFrame /\ ttsc_error = ""
    /\ ttsc_error' = CalibrateError(ttsc, df)
    /\ ttsc' = IF ValidateInput(df) # "" THEN ttsc
               ELSE [ttsc EXCEPT !.temp_thresholds = ThresholdsAfter(ttsc, df)]
    /\ ttsc_result' = IF CalibrateError(ttsc, df) # "" THEN NoFrame
                      ELSE CalibrateFrame(ttsc, df)
    /\ UNCHANGED <<program, df, call, climate_zone, out, appVars, metadata,
                   series, batchVars,
                   metVars, downloadVars, uploadVars>>

\* The caller goes on to a second Series with the calibrator it has used:
\* the next calibrator.calibrate(data) gets that frame.
NextSeries ==
    /\ program = "lib"
    /\ series = "A"
    /\ ttsc_result # NoFrame
    /\ df' \in SecondFrames
    /\ series' = "B"
    /\ ttsc_result' = NoFrame
    /\ UNCHANGED <<program, call, climate_zone, out, appVars, ttsc, ttsc_error,
                   metadata, batchVars,
                   metVars, downloadVars, uploadVars>>

\* batch_calibrate(data, model_type=type); model_type is "" before the call.
BatchCalibrate ==
    /\ program = "batch"
    /\ model_type = ""
    /\ \E type \in ModelTypes, meta \in Metadata :
          /\ model_type' = type
          /\ batch_error' = BatchCalibrateReturn(df, type, meta).error
          /\ batch_result' = BatchCalibrateReturn(df, type, meta).result
    /\ UNCHANGED <<program, df, call, climate_zone, out, appVars, libVars,
                   metVars, downloadVars, uploadVars>>

Next ==
    \/ CallEngineerAllFeatures
    \/ ConstructTemperatureCalibrator
    \/ TemperatureCalibratorCalibrate
    \/ ConstructTemporalTempStratCalibrator
    \/ TemporalTempStratCalibratorCalibrate
    \/ NextSeries
    \/ BatchCalibrate

Spec == Init /\ [][Next]_vars

----------------------------------------------------------------------------
(* calibrate on a calibrator whose registry was edited.                    *)

\* The registries a caller can leave in calibrator.models, a plain dict:
\* the loaded models under some of their names.
EditedRegistries(models) ==
    {[name \in S |-> models[name]] : S \in SUBSET (DOMAIN models) \ {{}}}

InitUnbound ==
    /\ program \in {"app", "lib"}
    /\ df \in CalFrames
    /\ climate_zone = ""
    /\ tc_error = "" /\ tc_result = NoFrame
    /\ ttsc_error = "" /\ ttsc_result = NoFrame
    /\ series = "A"
    /\ batch_error = "" /\ batch_result = NoFrame /\ model_type = ""
    /\ MetIdle /\ DownloadIdle /\ UploadIdle
    /\ IF program = "app"
       THEN /\ call = "engineer_all_features"
            /\ \E p \in SortValues(df.cols["timestamp"]) :
                  out = EngineerAllFeatures(df, p)
            /\ \E models \in EditedRegistries([name \in ModelNames |->
                                                 AppModel(name)]) :
                  tc = [models |-> models]
            /\ ttsc = NoObject /\ metadata = NoMetadata
       ELSE /\ call = "none"
            /\ out = NoFrame
            /\ tc = NoObject
            /\ metadata \in {m \in Metadata :
                                m.feature_names = <<"temperature", "humidity">>}
            /\ \E models \in EditedRegistries(NewCalibrator(metadata).models) :
                  ttsc = [NewCalibrator(metadata) EXCEPT !.models = models]

NextUnbound ==
    \/ TemperatureCalibratorCalibrate
    \/ TemporalTempStratCalibratorCalibrate

SpecUnbound == InitUnbound /\ [][NextUnbound]_vars

----------------------------------------------------------------------------
(* Meteorological functions: wind direction, dewpoint and vapour pressure  *)
(* deficit, applied to columns.                                            *)

\* np.arctan2(v, u) * 180 / np.pi, for components of equal size or with one
\* of them 0: the direction is a multiple of 45 degrees in (-180, 180].
Arctan2Degrees(v, u) ==
    IF v = Q(0) THEN (IF QLt(u, Q(0)) THEN Q(180) ELSE Q(0))
    ELSE IF u = Q(0) THEN (IF QGt(v, Q(0)) THEN Q(90) ELSE Q(0 - 90))
    ELSE IF QGt(u, Q(0)) THEN (IF QGt(v, Q(0)) THEN Q(45) ELSE Q(0 - 45))
    ELSE (IF QGt(v, Q(0)) THEN Q(135) ELSE Q(0 - 135))

\* x % 360 of Python on a whole number of degrees: the sign of the divisor.
Mod360(x) == Q(x[1] % 360)

\* create_derived_meteorology: wind_dir = (arctan2(v10, u10) * 180 / pi
\* + 360) % 360
WindDir(u, v) == Mod360(QAdd(Arctan2Degrees(v, u), Q(360)))

\* ERA5Reader.get_era5_data: result['wind_direction'] =
\* np.arctan2(v10, u10) * 180 / np.pi
WindDirection(u, v) == Arctan2Degrees(v, u)

\* The coefficient sets of the Magnus-Tetens formula in the source.
ColdCoefficients == [a |-> Norm(22452, 1000), b |-> Norm(27255, 100)]

WarmCoefficients == [a |-> Norm(17625, 1000), b |-> Norm(24304, 100)]

AppCoefficients == [a |-> Norm(1727, 100), b |-> Norm(2377, 10)]

\* b * alpha / (a - alpha) with alpha = ln(rh / 100) + a * t / (b + t): the
\* logarithm has no exact value here, so a dewpoint is kept as the term that
\* determines it, the coefficients and the two readings.
Magnus(coefficients, t, rh) ==
    [a |-> coefficients.a, b |-> coefficients.b, temperature |-> t,
     humidity |-> rh]

\* _calculate_dewpoint(temp, rh) of src/data: the rows of cold_mask with
\* the cold coefficients, the rows of warm_mask with the warm ones.
DataCalculateDewpoint(temp, rh) ==
    [i \in Rows(temp) |->
        IF QLt(temp[i], Q(0)) THEN Magnus(ColdCoefficients, temp[i], rh[i])
        ELSE IF ~QLt(temp[i], Q(0)) /\ ~IsNaN(temp[i])
             THEN Magnus(WarmCoefficients, temp[i], rh[i])
        ELSE temp[i]]

\* calculate_dewpoint(temperature_c, relative_humidity) of src/app: a = 17.27
\* and b = 237.7 on the whole array.
CalculateDewpoint(temperature_c, relative_humidity) ==
    [i \in Rows(temperature_c) |->
        Magnus(AppCoefficients, temperature_c[i], relative_humidity[i])]

\* The readings the meteorological functions are applied to, in Celsius.
MetTemps == {Q(0 - 10), Q(0), Q(20)}

\* es = 0.6108 * np.exp(17.27 * t / (t + 237.3)) in kPa: the exponential
\* tabulated at the readings of MetTemps to four digits, as a float.
SaturationVapourPressure(t) ==
    IF t = Q(0 - 10) THEN Float(Norm(2857, 10000))
    ELSE IF t = Q(0) THEN Float(Norm(6108, 10000))
    ELSE IF t = Q(20) THEN Float(Norm(2338, 1000))
    ELSE NaN

\* An actual vapour pressure that takes the percentage for the fraction.
ActualVapourPressurePercent(es, rh) == Float(QMul(es, rh))

\* ea = es * (rh / 100)
ActualVapourPressure(es, rh) == Float(QMul(es, Float(QDivInt(rh, 100))))

\* calculate_vpd / _calculate_vpd: vpd = es - ea, the same statements in
\* both modules.
CalculateVpd(temp, rh) ==
    [i \in Rows(temp) |->
        FloatSub(SaturationVapourPressure(temp[i]),
                 ActualVapourPressure(SaturationVapourPressure(temp[i]),
                                      rh[i]))]

\* The relative humidities and the wind components of the inputs.
MetHumidity == {Q(0), Q(50), Q(99), Q(100)}

WindComponents == {Q(0 - 1), Q(0), Q(1)}

\* The inputs: up to MaxLen rows, any readings of MetTemps, one humidity and
\* one wind vector on all rows.
MetInputs ==
    UNION {{[temperature |-> temp,
             humidity    |-> [i \in 1..n |-> rh],
             u10         |-> [i \in 1..n |-> u],
             v10         |-> [i \in 1..n |-> v]] :
              temp \in [1..n -> MetTemps], rh \in MetHumidity,
              u \in WindComponents, v \in WindComponents} :
           n \in 1..MaxLen}

InitMet ==
    /\ program = "met"
    /\ df = NoFrame /\ call = "none" /\ climate_zone = "" /\ out = NoFrame
    /\ tc = NoObject /\ tc_error = "" /\ tc_result = NoFrame
    /\ ttsc = NoObject /\ ttsc_error = "" /\ ttsc_result = NoFrame
    /\ metadata = NoMetadata /\ series = "A"
    /\ batch_error = "" /\ batch_result = NoFrame /\ model_type = ""
    /\ met \in MetInputs /\ met_call = "none" /\ met_result = <<>>
    /\ DownloadIdle /\ UploadIdle

\* FeatureEngineer().create_derived_meteorology(data) of src/data: its
\* wind_dir, dewpoint and VPD columns (wind_speed, a square root, and
\* dewpoint_dep are not modelled).
CallCreateDerivedMeteorology ==
    /\ met_call = "none" /\ met # NoMet
    /\ met_call' = "create_derived_meteorology"
    /\ met_result' =
          [wind_dir |-> [i \in Rows(met.u10) |-> WindDir(met.u10[i], met.v10[i])],
           dewpoint |-> DataCalculateDewpoint(met.temperature, met.humidity),
           VPD      |-> CalculateVpd(met.temperature, met.humidity)]
    /\ UNCHANGED <<pipelineVars, met, downloadVars, uploadVars>>

\* ERA5Reader.get_era5_data(timestamp, latitude, longitude), once per row: the
\* wind_direction it derives from the u10 and v10 of the dataset.
CallGetEra5Data ==
    /\ met_call = "none" /\ met # NoMet
    /\ met_call' = "get_era5_data"
    /\ met_result' =
          [wind_direction |->
              [i \in Rows(met.u10) |-> WindDirection(met.u10[i], met.v10[i])]]
    /\ UNCHANGED <<pipelineVars, met, downloadVars, uploadVars>>

\* FeatureEngineer.calculate_dewpoint(temperature_c, relative_humidity) of
\* src/app, as engineer_all_features calls it.
CallCalculateDewpoint ==
    /\ met_call = "none" /\ met # NoMet
    /\ met_call' = "calculate_dewpoint"
    /\ met_result' =
          [dewpoint_sensor |-> CalculateDewpoint(met.temperature, met.humidity)]
    /\ UNCHANGED <<pipelineVars, met, downloadVars, uploadVars>>

\* FeatureEngineer.calculate_vpd(temperature_c, relative_humidity) of src/app.
CallCalculateVpd ==
    /\ met_call = "none" /\ met # NoMet
    /\ met_call' = "calculate_vpd"
    /\ met_result' =
          [vapor_pressure_deficit_sensor |->
              CalculateVpd(met.temperature, met.humidity)]
    /\ UNCHANGED <<pipelineVars, met, downloadVars, uploadVars>>

NextMet ==
    \/ CallCreateDerivedMeteorology
    \/ CallGetEra5Data
    \/ CallCalculateDewpoint
    \/ CallCalculateVpd

SpecMet == InitMet /\ [][NextMet]_vars

----------------------------------------------------------------------------
(* src/app/utils/zenodo_downloader.py: ZenodoERA5Downloader.download_file  *)

\* The months asked for.
YearMonths == {"2024-01", "2024-02", "2024-03"}

\* How a download can go: the request fails with status 404 or otherwise
\* (raise_for_status, before the local file is opened), the transfer breaks
\* after open(local_path, 'wb'), or every chunk is written.
Transfers == {"http_404", "http_error", "broken", "complete"}

\* The exception download_file raises for a transfer.
DownloadError(transfer) ==
    IF transfer = "http_404" THEN "FileNotFoundError"
    ELSE IF transfer \in {"http_error", "broken"} THEN "IOError"
    ELSE ""

\* The local file after a transfer: open(local_path, 'wb') creates or
\* truncates it, and nothing removes what a broken transfer wrote.
FileAfter(file, transfer) ==
    IF transfer = "complete" THEN "complete"
    ELSE IF transfer = "broken" THEN "partial"
    ELSE file

InitDownload ==
    /\ program = "download"
    /\ df = NoFrame /\ call = "none" /\ climate_zone = "" /\ out = NoFrame
    /\ tc = NoObject /\ tc_error = "" /\ tc_result = NoFrame
    /\ ttsc = NoObject /\ ttsc_error = "" /\ ttsc_result = NoFrame
    /\ metadata = NoMetadata /\ series = "A"
    /\ batch_error = "" /\ batch_result = NoFrame /\ model_type = ""
    /\ MetIdle /\ UploadIdle
    /\ cache_files \in [YearMonths -> {"absent", "complete"}]
    /\ download = NoDownload

\* downloader.download_file(year_month, force): the cache branch returns the
\* path of whatever file exists; otherwise the file is requested and written.
\* download.returned is the state of the file whose path is returned, "none"
\* when the call raises.
DownloadFile ==
    /\ program = "download"
    /\ \E year_month \in YearMonths, force \in BOOLEAN, transfer \in Transfers :
          IF cache_files[year_month] # "absent" /\ ~force
          THEN /\ download' = [year_month |-> year_month, force |-> force,
                               outcome |-> "cached",
                               returned |-> cache_files[year_month]]
               /\ UNCHANGED cache_files
          ELSE /\ cache_files' =
                     [cache_files EXCEPT ![year_month] = FileAfter(@, transfer)]
               /\ download' = [year_month |-> year_month, force |-> force,
                               outcome |-> IF DownloadError(transfer) = ""
                                           THEN "downloaded"
                                           ELSE DownloadError(transfer),
                               returned |-> IF DownloadError(transfer) = ""
                                            THEN "complete" ELSE "none"]
    /\ UNCHANGED <<pipelineVars, metVars, uploadVars>>

NextDownload == DownloadFile

SpecDownload == InitDownload /\ [][NextDownload]_vars

----------------------------------------------------------------------------
(* src/upload_to_zenodo_resume.py: main                                    *)

\* sorted(data_dir.glob("*.nc")): the file names in upload order.
FileOrder == <<"era5_2024_01.nc", "era5_2024_02.nc", "era5_2024_03.nc">>

FileNames == {FileOrder[i] : i \in 1..Len(FileOrder)}

\* remaining_files less the ones the loop has already tried: an uploaded file
\* is in the deposition, a refused one in failed_files.
RemainingFiles == (nc_files \ deposition_files) \ failed_files

\* The file the loop tries next.
NextFile ==
    FileOrder[CHOOSE i \in 1..Len(FileOrder) :
                 /\ FileOrder[i] \in RemainingFiles
                 /\ \A j \in 1..(i - 1) : FileOrder[j] \notin RemainingFiles]

InitUpload ==
    /\ program = "upload"
    /\ df = NoFrame /\ call = "none" /\ climate_zone = "" /\ out = NoFrame
    /\ tc = NoObject /\ tc_error = "" /\ tc_result = NoFrame
    /\ ttsc = NoObject /\ ttsc_error = "" /\ ttsc_result = NoFrame
    /\ metadata = NoMetadata /\ series = "A"
    /\ batch_error = "" /\ batch_result = NoFrame /\ model_type = ""
    /\ MetIdle /\ DownloadIdle
    /\ pc = "start"
    /\ nc_files \in SUBSET FileNames
    /\ deposition_files \in SUBSET FileNames
    /\ failed_files = {}
    /\ metadata_added = "none"
    /\ published = FALSE

\* main up to the upload loop: no local file, no token or no deposition ends
\* the run; with nothing left to upload a "yes" goes on to the metadata,
\* otherwise a "yes" starts the loop.
StartMain ==
    /\ program = "upload" /\ pc = "start"
    /\ \E retrieved \in BOOLEAN, confirm \in BOOLEAN :
          pc' = IF nc_files = {} \/ ~retrieved \/ ~confirm THEN "exit"
                ELSE IF nc_files \subseteq deposition_files THEN "metadata"
                ELSE "upload"
    /\ UNCHANGED <<nc_files, deposition_files, failed_files, metadata_added,
                   published>>
    /\ UNCHANGED <<pipelineVars, metVars, downloadVars>>

\* One pass of the loop: upload_file returns True (status 200 or 201, the
\* file is in the bucket) or False.
UploadFile ==
    /\ program = "upload" /\ pc = "upload"
    /\ RemainingFiles # {}
    /\ \E success \in BOOLEAN :
          IF success
          THEN /\ deposition_files' = deposition_files \cup {NextFile}
               /\ UNCHANGED failed_files
          ELSE /\ failed_files' = failed_files \cup {NextFile}
               /\ UNCHANGED deposition_files
    /\ UNCHANGED <<pc, nc_files, metadata_added, published>>
    /\ UNCHANGED <<pipelineVars, metVars, downloadVars>>

\* After the loop: if failed_files: sys.exit(1).
CheckFailedFiles ==
    /\ program = "upload" /\ pc = "upload"
    /\ RemainingFiles = {}
    /\ pc' = IF failed_files # {} THEN "exit" ELSE "metadata"
    /\ UNCHANGED <<nc_files, deposition_files, failed_files, metadata_added,
                   published>>
    /\ UNCHANGED <<pipelineVars, metVars, downloadVars>>

\* add_metadata(deposition_id, token, METADATA): it returns True or False
\* and main goes on to publish without looking at what it returned.
AddMetadata ==
    /\ program = "upload" /\ pc = "metadata"
    /\ \E status_code \in {200, 400} :
          metadata_added' = IF status_code # 200 THEN "failed" ELSE "ok"
    /\ pc' = "publish"
    /\ UNCHANGED <<nc_files, deposition_files, failed_files, published>>
    /\ UNCHANGED <<pipelineVars, metVars, downloadVars>>

\* publish_deposition(deposition_id, token): published on status 202.
PublishDeposition ==
    /\ program = "upload" /\ pc = "publish"
    /\ \E status_code \in {202, 400} :
          published' = (status_code = 202)
    /\ pc' = "exit"
    /\ UNCHANGED <<nc_files, deposition_files, failed_files, metadata_added>>
    /\ UNCHANGED <<pipelineVars, metVars, downloadVars>>

NextUpload ==
    \/ StartMain
    \/ UploadFile
    \/ CheckFailedFiles
    \/ AddMetadata
    \/ PublishDeposition

SpecUpload == InitUpload /\ [][NextUpload]_vars

----------------------------------------------------------------------------
(* Properties of the feature engineering (SpecFE).                         *)

\* The rows of a frame are a Series: strictly ascending timestamps.
IsSeries(d) ==
    \A i \in 1..(NRows(d) - 1) :
        QLt(d.cols["timestamp"][i], d.cols["timestamp"][i + 1])

\* Non-descending timestamps.
InTimeOrder(d) ==
    \A i \in 1..(NRows(d) - 1) :
        ~QGt(d.cols["timestamp"][i], d.cols["timestamp"][i + 1])

\* Column lag of frame d holds, at every row i > k, the value of column base
\* at row i - k.
LagsByRow(d, names, base) ==
    \A k \in 1..Len(names) : \A i \in 1..NRows(d) :
        i > k => d.cols[names[k]][i] = d.cols[base][i - k]

\* C1: a lag-k feature at row i >= k (rows counted from 0) is the base
\* column's value k row positions earlier in the time-ordered frame, whatever
\* the hours between the rows: the temperature, humidity and ssrd lags of
\* engineer_all_features, and the lags of create_lagged_features on a Series.
C1_LagIsRowPosition ==
    /\ call = "engineer_all_features" =>
          /\ InTimeOrder(out)
          /\ LagsByRow(out, TempLagNames, "sensor temperature")
          /\ LagsByRow(out, HumidityLagNames, "humidity")
          /\ LagsByRow(out, SsrdLagNames, "ssrd")
    /\ (call = "engineer_features" /\ IsSeries(df)) =>
          /\ InTimeOrder(out)
          /\ LagsByRow(out, DataTempLagNames, "temperature")
          /\ LagsByRow(out, DataHumidityLagNames, "humidity")
          /\ LagsByRow(out, DataSsrdLagNames, "SSRD")

\* A frame of seven rows with a gap of several hours: the deepest lag of the
\* last row is the first row's reading, which differs from the second's.
C1_Witness ==
    /\ call = "engineer_all_features"
    /\ NRows(out) = MaxTempLag + 1
    /\ QGt(QSub(out.cols["timestamp"][4], out.cols["timestamp"][3]), Q(1))
    /\ out.cols["sensor_temp_6h_ago"][MaxTempLag + 1]
          = out.cols["sensor temperature"][1]
    /\ out.cols["sensor temperature"][1] # out.cols["sensor temperature"][2]

\* Column post is column pre with every missing value replaced by the nearest
\* earlier non-missing value of pre, by 0 when there is none, and every other
\* value kept.
FilledFrom(pre, post) ==
    /\ Len(post) = Len(pre)
    /\ \A i \in Rows(pre) :
          LET J == {j \in 1..i : ~IsNaN(pre[j])}
          IN  post[i] = IF J = {} THEN Q(0)
                        ELSE pre[CHOOSE j \in J : \A x \in J : x <= j]

\* C2: engineer_all_features returns no missing value: what was missing
\* after the features were computed holds the nearest earlier non-missing
\* value of its column, 0 when there is none; so a lag-k feature is 0 on the
\* rows i < k (rows counted from 0).
C2_FillPolicy ==
    call = "engineer_all_features" =>
        /\ \A c \in DOMAIN out.cols : \A i \in Rows(out.cols[c]) :
              ~IsNaN(out.cols[c][i])
        /\ \E p \in SortValues(df.cols["timestamp"]) :
              \E pre \in {ComputeAllFeatures(df, p)} :
                  \A c \in DOMAIN out.cols : FilledFrom(pre[c], out.cols[c])
        /\ \A k \in Rows(TempLagNames) : \A i \in 1..NRows(out) :
              i <= k => out.cols[TempLagNames[k]][i] = Q(0)
        /\ \A k \in Rows(HumidityLagNames) : \A i \in 1..NRows(out) :
              i <= k => out.cols[HumidityLagNames[k]][i] = Q(0)
        /\ \A k \in Rows(SsrdLagNames) : \A i \in 1..NRows(out) :
              i <= k => out.cols[SsrdLagNames[k]][i] = Q(0)

\* Three rows in time order whose second and third reading are missing: they
\* are filled with the first reading, the 1-hour lag is 0 on the first row
\* and, on the third row, filled with the first reading too.
C2_Witness ==
    /\ call = "engineer_all_features"
    /\ InTimeOrder(df) /\ NRows(df) = 3
    /\ ~IsNaN(df.cols["temperature"][1])
    /\ IsNaN(df.cols["temperature"][2]) /\ IsNaN(df.cols["temperature"][3])
    /\ out.cols["sensor temperature"][2] = out.cols["sensor temperature"][1]
    /\ out.cols["sensor_temp_1h_ago"][1] = Q(0)
    /\ out.cols["sensor_temp_1h_ago"][3] = out.cols["sensor temperature"][1]
    /\ out.cols["sensor temperature"][1] # Q(0)

\* The number of consecutive rows ending at row i, row i included, on which
\* the 0/1 column holds 1.
ConsecutiveTrue(cond, i) ==
    Q(Cardinality({j \in 1..i : \A k \in j..i : cond[k] = Q(1)}))

StreakCounts(d, streak, cond) ==
    \A i \in 1..NRows(d) :
        d.cols[streak][i] = ConsecutiveTrue(d.cols[cond], i)

\* C3: the streak at a row is the number of consecutive rows ending there on
\* which the condition held, 0 where it does not hold: hot_streak and
\* cold_streak of engineer_all_features against its is_hot and is_cold, and
\* _calculate_streak in create_thermal_persistence against the is_hot and
\* is_cold of the same thresholds.
C3_StreakLength ==
    call \in {"engineer_all_features", "engineer_features"} =>
        /\ StreakCounts(out, "hot_streak", "is_hot")
        /\ StreakCounts(out, "cold_streak", "is_cold")

\* The condition False, True, True, False, True gives 0, 1, 2, 0, 1.
C3_Witness ==
    /\ call = "engineer_all_features"
    /\ NRows(out) >= 5
    /\ SubSeq(out.cols["is_hot"], 1, 5) = <<Q(0), Q(1), Q(1), Q(0), Q(1)>>
    /\ SubSeq(out.cols["hot_streak"], 1, 5) = <<Q(0), Q(1), Q(2), Q(0), Q(1)>>

\* C4 as the specification states it: at the first row of a Series the
\* rolling mean of every window is that row's temperature and the rolling
\* standard deviation of every window is 0, in engineer_all_features
\* (temp_ma, temp_std) and in create_rolling_features (temp_ma, temp_sd).
C4_FirstRowStatistics ==
    /\ (call = "engineer_all_features" /\ IsSeries(df)) =>
          /\ \A c \in {"temp_ma_3h", "temp_ma_6h", "temp_ma_12h"} :
                out.cols[c][1] = out.cols["sensor temperature"][1]
          /\ \A c \in {"temp_std_3h", "temp_std_6h", "temp_std_12h"} :
                out.cols[c][1] = Q(0)
    /\ (call = "engineer_features" /\ IsSeries(df)) =>
          /\ \A c \in {"temp_ma_3h", "temp_ma_6h", "temp_ma_12h"} :
                out.cols[c][1] = out.cols["temperature"][1]
          /\ \A c \in {"temp_sd_3h", "temp_sd_6h", "temp_sd_12h"} :
                out.cols[c][1] = Q(0)

----------------------------------------------------------------------------
(* Properties of the calibration pipelines (Spec).                         *)

\* C5: the classification is total and the thresholds belong to the middle
\* class: a row is cold exactly when its temperature is below the lower
\* threshold, hot exactly when above the upper one, normal (moderate)
\* otherwise, so on either threshold it is normal (moderate); in
\* determine_temperature_regime with 10 and 30 and in _assign_strata with the
\* p25 and p75 the calibrator holds.
C5_StratumTotal ==
    /\ tc_result # NoFrame =>
          \A i \in 1..NRows(tc_result) :
              LET t == tc_result.cols["sensor temperature"][i]
                  r == tc_result.temperature_regime[i]
              IN  /\ r \in {"cold", "normal", "hot"}
                  /\ r = "cold" <=> QLt(t, Q(10))
                  /\ r = "hot" <=> QGt(t, Q(30))
                  /\ (t = Q(10) \/ t = Q(30)) => r = "normal"
    /\ ttsc_result # NoFrame =>
          \A j \in 1..NRows(ttsc_result) :
              LET t  == ttsc_result.cols["temperature"][j]
                  r  == ttsc_result.stratum[j]
                  th == ttsc.temp_thresholds
              IN  /\ r \in {"cold", "moderate", "hot"}
                  /\ r = "cold" <=> QLt(t, th.p25)
                  /\ r = "hot" <=> QGt(t, th.p75)
                  /\ (t = th.p25 \/ t = th.p75) => r = "moderate"

\* A calibrated frame with a row on each threshold of the metadata (10 and
\* 30), both moderate, and a cold row.
C5_Witness ==
    /\ ttsc_result # NoFrame
    /\ ttsc.temp_thresholds = [p25 |-> Q(10), p75 |-> Q(30)]
    /\ \E i, j, k \in 1..NRows(ttsc_result) :
          /\ ttsc_result.cols["temperature"][i] = Q(10)
          /\ ttsc_result.stratum[i] = "moderate"
          /\ ttsc_result.cols["temperature"][j] = Q(30)
          /\ ttsc_result.stratum[j] = "moderate"
          /\ ttsc_result.stratum[k] = "cold"

\* The test frame of model_predictor.py went through the app pipeline.
ScenarioCalibrated == df = ScenarioFrame /\ tc_result # NoFrame

\* C6 as the specification states it: the ten readings 8, 12, 18, 25, 32,
\* 28, 22, 15, 10, 5 are classified cold, moderate, moderate, moderate, hot,
\* moderate, moderate, moderate, cold, cold (the code's name of moderate is
\* normal).
C6_ScenarioStrataAsStated ==
    ScenarioCalibrated =>
        tc_result.temperature_regime =
            <<"cold", "normal", "normal", "normal", "hot",
              "normal", "normal", "normal", "cold", "cold">>

\* C6, amended: the ninth reading, 10, is on the lower threshold and is
\* normal (moderate): cold, moderate, moderate, moderate, hot, moderate,
\* moderate, moderate, moderate, cold.
C6_ScenarioStrata ==
    ScenarioCalibrated =>
        tc_result.temperature_regime =
            <<"cold", "normal", "normal", "normal", "hot",
              "normal", "normal", "normal", "normal", "cold">>

C6_Witness ==
    /\ ScenarioCalibrated
    /\ tc_result.cols["sensor temperature"][9] = Q(10)
    /\ tc_result.temperature_regime[9] = "normal"

\* z is the float nearest to x - y: z + y differs from x by no more than the
\* rounding of one operation, 2^-Precision of z.
DifferenceRounded(x, y, z) ==
    ~QGt(QMul(QAbs(QSub(QAdd(z, y), x)), Q(Pow2(Precision))), QAbs(z))

\* C7 as the specification states it: on every row of a result the sum
\* bias + calibrated temperature, as the float arithmetic of the code gives
\* it, is the sensor temperature exactly.
C7_RoundTripExact ==
    /\ ttsc_result # NoFrame =>
          \A j \in 1..NRows(ttsc_result) :
              FloatAdd(ttsc_result.cols["temperature_bias"][j],
                       ttsc_result.cols["temperature_calibrated"][j])
                  = ttsc_result.cols["temperature"][j]
    /\ tc_result # NoFrame =>
          \A i \in 1..NRows(tc_result) :
              FloatAdd(tc_result.cols["calibration_correction"][i],
                       tc_result.cols["calibrated_temperature"][i])
                  = tc_result.cols["sensor temperature"][i]

\* C7, amended: on every row bias + calibrated temperature is the sensor
\* temperature up to the rounding of the one float subtraction that produced
\* the calibrated temperature (TemporalTempStratCalibrator) or the correction
\* (TemperatureCalibrator).
C7_RoundTripRounded ==
    /\ ttsc_result # NoFrame =>
          \A j \in 1..NRows(ttsc_result) :
              DifferenceRounded(ttsc_result.cols["temperature"][j],
                                ttsc_result.cols["temperature_bias"][j],
                                ttsc_result.cols["temperature_calibrated"][j])
    /\ tc_result # NoFrame =>
          \A i \in 1..NRows(tc_result) :
              DifferenceRounded(tc_result.cols["sensor temperature"][i],
                                tc_result.cols["calibrated_temperature"][i],
                                tc_result.cols["calibration_correction"][i])

\* A hot row whose bias is not 0 and whose float sum is not the reading.
C7_Witness ==
    /\ ttsc_result # NoFrame
    /\ \E j \in 1..NRows(ttsc_result) :
          /\ ttsc_result.cols["temperature_bias"][j] # Q(0)
          /\ FloatAdd(ttsc_result.cols["temperature_bias"][j],
                      ttsc_result.cols["temperature_calibrated"][j])
                 # ttsc_result.cols["temperature"][j]

\* What predict of the model bound to the row's stratum returns.
LibPrediction(j) ==
    Predict(ttsc.models[ttsc_result.stratum[j]],
            FeatureVector(ttsc_result, j, ttsc.feature_names)).value

AppPrediction(i) ==
    Predict(tc.models[tc_result.temperature_regime[i]],
            FeatureVector(out, i, tc_result.feature_list)).value

\* The calibrated temperature of TemporalTempStratCalibrator.calibrate is the
\* row's temperature minus the prediction.
LibSubtractsPrediction ==
    ttsc_result # NoFrame =>
        \A j \in 1..NRows(ttsc_result) :
            ttsc_result.cols["temperature_calibrated"][j]
                = FloatSub(ttsc_result.cols["temperature"][j], LibPrediction(j))

C9_FailureAborts ==
    /\ tc_result # NoFrame =>
          \A i \in 1..NRows(tc_result) :
              ~(/\ tc_result.raised[i]
                /\ tc_result.cols["calibrated_temperature"][i]
                       = tc_result.cols["sensor temperature"][i])
    /\ ttsc_error # "" => ttsc_result = NoFrame

\* C10 as the specification states it: a feature list that names a column
\* the frame lacks, or whose length is not what the bound model expects (an
\* empty feature_names included), makes calibrate fail: there is no result.
C10_SchemaMismatchFails ==
    /\ tc_result # NoFrame =>
          /\ ~KeyError(out, tc_result.feature_list)
          /\ \A i \in 1..NRows(tc_result) :
                Len(tc_result.feature_list)
                    = tc.models[tc_result.temperature_regime[i]].n_features_in
    /\ ttsc_result # NoFrame =>
          /\ ~KeyError(df, ttsc.feature_names)
          /\ \A j \in 1..NRows(ttsc_result) :
                Len(ttsc.feature_names)
                    = ttsc.models[ttsc_result.stratum[j]].n_features_in

----------------------------------------------------------------------------
(* Properties of calibrate under an edited registry (SpecUnbound).         *)

\* C11: every row of a result was calibrated with the model registered
\* under the row's own stratum, and calibrate raises (KeyError) when a row's
\* stratum has no registered model: it returns no frame then, neither with
\* another stratum's model applied nor with the raw reading passed through.
C11_OwnStratumModel ==
    /\ tc_result # NoFrame =>
          \A i \in 1..NRows(tc_result) :
              /\ tc_result.temperature_regime[i] \in DOMAIN tc.models
              /\ ~tc_result.raised[i] =>
                    tc_result.cols["calibrated_temperature"][i] = AppPrediction(i)
    /\ ttsc_result # NoFrame =>
          \A j \in 1..NRows(ttsc_result) :
              /\ ttsc_result.stratum[j] \in DOMAIN ttsc.models
              /\ ttsc_result.cols["temperature_bias"][j] = LibPrediction(j)
    /\ (program = "app" /\ tc_error = "KeyError") => tc_result = NoFrame
    /\ (program = "lib" /\ ttsc_error = "KeyError") => ttsc_result = NoFrame

\* TemperatureCalibrator.calibrate raised on a frame with a row whose regime
\* has no model and a row whose regime has one.
C11_Witness ==
    /\ program = "app" /\ tc_error = "KeyError" /\ tc_result = NoFrame
    /\ \E i, j \in 1..NRows(out) :
          /\ DetermineTemperatureRegime(out.cols["sensor temperature"][i])
                 \notin DOMAIN tc.models
          /\ DetermineTemperatureRegime(out.cols["sensor temperature"][j])
                 \in DOMAIN tc.models

----------------------------------------------------------------------------
(* One result row per input row.                                           *)

\* Row i of the frame given to TemporalTempStratCalibrator.calibrate, with
\* the stratum its reading has under the calibrator's thresholds.
InputRow(i) ==
    <<df.cols["timestamp"][i], df.cols["temperature"][i],
      df.cols["humidity"][i],
      StratumOf(df.cols["temperature"][i], ttsc.temp_thresholds)>>

\* Row j of the frame it returned.
ResultRow(j) ==
    <<ttsc_result.cols["timestamp"][j], ttsc_result.cols["temperature"][j],
      ttsc_result.cols["humidity"][j], ttsc_result.stratum[j]>>

\* C12: a frame returned by either calibrate has exactly one row per input
\* row, no input row dropped or duplicated, and each result row carries the
\* sensor temperature (and timestamp) and the stratum of its own input row:
\* every input row occurs in the result as often as in the input.
C12_OneRowPerInputRow ==
    /\ tc_result # NoFrame =>
          /\ NRows(tc_result) = NRows(out)
          /\ \A i \in 1..NRows(out) :
                /\ tc_result.cols["sensor temperature"][i]
                       = out.cols["sensor temperature"][i]
                /\ tc_result.cols["timestamp"][i] = out.cols["timestamp"][i]
                /\ tc_result.temperature_regime[i]
                       = DetermineTemperatureRegime(
                             out.cols["sensor temperature"][i])
    /\ ttsc_result # NoFrame =>
          /\ NRows(ttsc_result) = NRows(df)
          /\ \A i \in 1..NRows(df) :
                Cardinality({j \in 1..NRows(ttsc_result) :
                                ResultRow(j) = InputRow(i)})
                    = Cardinality({k \in 1..NRows(df) :
                                      InputRow(k) = InputRow(i)})

\* A returned frame of three rows, two of them in one stratum, whose rows do
\* not come back in input order.
C12_Witness ==
    /\ ttsc_result # NoFrame /\ NRows(df) = 3
    /\ \E i, j \in 1..3 : i # j /\ ttsc_result.stratum[i] = ttsc_result.stratum[j]
    /\ \E j \in 1..3 : ttsc_result.src[j] # j

----------------------------------------------------------------------------
(* Duplicate timestamps.                                                   *)

\* No two rows of d share a timestamp.
DistinctTimestamps(d) ==
    \A i, j \in 1..NRows(d) :
        d.cols["timestamp"][i] = d.cols["timestamp"][j] => i = j

\* C13: the frame engineer_all_features or engineer_features returns has no
\* two rows with the same timestamp.
C13_NoDuplicateTimestamps ==
    out # NoFrame => DistinctTimestamps(out)

----------------------------------------------------------------------------
(* Row order of engineer_all_features.                                     *)

\* No reading of the frame is missing.
NoMissing(d) == \A i \in 1..NRows(d) : ~IsNaN(d.cols["temperature"][i])

\* Column name of d holds, at every row i > k, the base column's difference
\* between row i and row i - k.
ChangeByRow(d, name, base, k) ==
    \A i \in 1..NRows(d) :
        i > k => d.cols[name][i] = QSub(d.cols[base][i], d.cols[base][i - k])

\* Column name of d holds, at every row, the mean of the base column over the
\* w rows ending there (fewer at the start).
MeanByRow(d, name, base, w) ==
    \A i \in 1..NRows(d) :
        LET J == (IF i > w THEN i - w + 1 ELSE 1)..i
        IN  QMul(d.cols[name][i], Q(Cardinality(J))) = SumOver(d.cols[base], J)

\* C14: engineer_all_features returns its rows in ascending timestamp order
\* whatever the order of the input rows, and the lag, change-rate, rolling
\* and streak features of a row are those of its place in that order (the
\* change rates and rolling means stated for frames without missing
\* readings, where filling does not alter them).
C14_SortedOrder ==
    call = "engineer_all_features" =>
        /\ InTimeOrder(out)
        /\ NRows(out) = NRows(df)
        /\ LagsByRow(out, TempLagNames, "sensor temperature")
        /\ StreakCounts(out, "hot_streak", "is_hot")
        /\ StreakCounts(out, "cold_streak", "is_cold")
        /\ NoMissing(df) =>
              /\ ChangeByRow(out, "temp_change_1h", "sensor temperature", 1)
              /\ ChangeByRow(out, "temp_change_2h", "sensor temperature", 2)
              /\ MeanByRow(out, "temp_ma_3h", "sensor temperature", 3)
              /\ MeanByRow(out, "temp_ma_6h", "sensor temperature", 6)

\* A frame given latest row first: the result is in time order and its last
\* row holds the change from the earlier reading.
C14_Witness ==
    /\ call = "engineer_all_features" /\ NoMissing(df) /\ NRows(df) >= 2
    /\ QGt(df.cols["timestamp"][1], df.cols["timestamp"][2])
    /\ out.cols["timestamp"][1] = df.cols["timestamp"][2]
    /\ out.cols["temp_change_1h"][2]
           = QSub(df.cols["temperature"][1], df.cols["temperature"][2])
    /\ out.cols["temp_change_1h"][2] # Q(0)

----------------------------------------------------------------------------
(* The calibrator across calls.                                            *)

\* The 25th and 75th percentile of the readings of d.
OwnQuantiles(d) ==
    [p25 |-> Quantile(d.cols["temperature"], 1),
     p75 |-> Quantile(d.cols["temperature"], 3)]

\* C15: a calibrator whose metadata gives no thresholds stratifies every
\* Series, the second one it calibrates included, by the percentiles of that
\* Series' own readings.
C15_ThresholdsPerSeries ==
    (ttsc_result # NoFrame /\ metadata.temp_thresholds = NoThresholds) =>
        \A j \in 1..NRows(ttsc_result) :
            ttsc_result.stratum[j]
                = StratumOf(ttsc_result.cols["temperature"][j], OwnQuantiles(df))

\* C16: a call of calibrate leaves the calibrator as it was: its models, its
\* feature names and its thresholds.
C16_CalibratorUnchanged ==
    [][(TemporalTempStratCalibratorCalibrate \/ TemperatureCalibratorCalibrate)
          => (ttsc' = ttsc /\ tc' = tc)]_vars

----------------------------------------------------------------------------
(* batch_calibrate.                                                        *)

\* C17: batch_calibrate with the default model_type 'temporal_tempstrat'
\* completes and returns a frame with as many rows of each sensor as the
\* input has.
C17_BatchCompletes ==
    (model_type = "temporal_tempstrat" /\ "sensor_id" \in Columns(df)) =>
        /\ batch_error = ""
        /\ batch_result # NoFrame
        /\ \A i \in 1..NRows(df) :
              Cardinality({j \in 1..NRows(batch_result) :
                              batch_result.cols["sensor_id"][j]
                                  = df.cols["sensor_id"][i]})
                  = Cardinality({k \in 1..NRows(df) :
                                    df.cols["sensor_id"][k]
                                        = df.cols["sensor_id"][i]})

----------------------------------------------------------------------------
(* Change rates.                                                           *)

\* Column name of d holds, from the third row on, the difference of column
\* change between the row and the row before.
AccelerationByRow(d, name, change) ==
    \A i \in 1..NRows(d) :
        i >= 3 => d.cols[name][i]
                     = QSub(d.cols[change][i], d.cols[change][i - 1])

----------------------------------------------------------------------------
(* Constant temperature.                                                   *)

\* A Series whose readings are all present and all the same.
ConstantSeries(d) ==
    /\ IsSeries(d) /\ NoMissing(d)
    /\ \A i \in 1..NRows(d) : d.cols["temperature"][i] = d.cols["temperature"][1]

\* Column name of d is 0 at every row.
ZeroColumn(d, name) == \A i \in 1..NRows(d) : d.cols[name][i] = Q(0)

\* A streak whose condition holds at every row counts the rows: i + 1 at
\* row i, rows counted from 0.
StreakGrows(d, streak, cond) ==
    (\A i \in 1..NRows(d) : d.cols[cond][i] = Q(1)) =>
        \A i \in 1..NRows(d) : d.cols[streak][i] = Q(i)

\* C19: on a Series of constant temperature every change-rate feature (1h,
\* 2h, 3h, acceleration) and every trend feature (3h, 6h) is 0 at every row,
\* the first rows included, and a streak whose condition holds at every row
\* is i + 1 at row i.
C19_ConstantSeries ==
    /\ (call = "engineer_all_features" /\ ConstantSeries(df)) =>
          /\ \A name \in {"temp_change_1h", "temp_change_2h", "temp_change_3h",
                          "temp_acceleration", "temp_trend_3h", "temp_trend_6h"} :
                ZeroColumn(out, name)
          /\ StreakGrows(out, "hot_streak", "is_hot")
          /\ StreakGrows(out, "cold_streak", "is_cold")
    /\ (call = "engineer_features" /\ ConstantSeries(df)) =>
          /\ \A name \in {"temp_change_1h", "temp_change_2h", "temp_change_3h",
                          "temp_accel", "temp_trend_3h", "temp_trend_6h"} :
                ZeroColumn(out, name)
          /\ StreakGrows(out, "hot_streak", "is_hot")
          /\ StreakGrows(out, "cold_streak", "is_cold")

----------------------------------------------------------------------------
(* Trend features.                                                         *)

\* b is the least-squares slope of y[first..i] against the row index
\* 0, 1, ..., i - first: it solves the normal equation
\* b * (n * Sum(x^2) - Sum(x)^2) = n * Sum(x*y) - Sum(x) * Sum(y).
IsLeastSquaresSlope(b, y, first, i) ==
    LET n   == i - first + 1
        Sx  == (n * (n - 1)) \div 2
        Sxx == ((n - 1) * n * (2 * n - 1)) \div 6
        xy  == [j \in Rows(y) |-> QMul(Q(j - first), y[j])]
        Sy  == SumOver(y, first..i)
        Sxy == SumOver(xy, first..i)
    IN  QMul(b, Q(n * Sxx - Sx * Sx)) = QSub(QMul(Q(n), Sxy), QMul(Q(Sx), Sy))

\* Column name of d holds, at every row, the least-squares slope of the base
\* column over the w rows ending there, and 0 on the first row.
TrendIsSlope(d, name, base, w) ==
    \A i \in 1..NRows(d) :
        IF i = 1 THEN d.cols[name][i] = Q(0)
        ELSE IsLeastSquaresSlope(d.cols[name][i], d.cols[base],
                                 IF i > w THEN i - w + 1 ELSE 1, i)

\* C20: temp_trend_3h and temp_trend_6h at a row are the least-squares slope
\* of the temperatures of the trailing window against their row index, and 0
\* on the first row, where the window holds one point: in the result of
\* engineer_all_features and in the columns of create_rolling_features.
C20_TrendIsSlope ==
    /\ (call = "engineer_all_features" /\ NoMissing(df)) =>
          /\ TrendIsSlope(out, "temp_trend_3h", "sensor temperature", 3)
          /\ TrendIsSlope(out, "temp_trend_6h", "sensor temperature", 6)
    /\ (call = "engineer_features" /\ NoMissing(df)) =>
          /\ TrendIsSlope(out, "temp_trend_3h", "temperature", 3)
          /\ TrendIsSlope(out, "temp_trend_6h", "temperature", 6)

----------------------------------------------------------------------------
(* The published feature list.                                             *)

\* The fields of an input of the pipeline; wind speed and direction are not
\* among them.
RequiredFields ==
    {"timestamp", "temperature", "humidity", "latitude", "longitude",
     "sshf", "ssrd", "strd", "tp", "u10", "v10"}

\* C21: for every input that has the required fields, every name of the list
\* of get_feature_list is a column of the frame engineer_all_features
\* returns.
C21_FeatureListPresent ==
    (call = "engineer_all_features" /\ RequiredFields \subseteq Columns(df)) =>
        \A k \in 1..Len(GetFeatureList) : GetFeatureList[k] \in Columns(out)

----------------------------------------------------------------------------
(* Properties of the meteorological functions (SpecMet).                   *)

\* A direction in [0, 360).
IsDirection(x) == ~QLt(x, Q(0)) /\ QLt(x, Q(360))

\* C22: the wind direction of every wind vector is in [0, 360), never
\* negative and never 360: wind_dir of create_derived_meteorology and
\* wind_direction of ERA5Reader.get_era5_data.
C22_DirectionNormalized ==
    /\ met_call = "create_derived_meteorology" =>
          \A i \in Rows(met_result.wind_dir) : IsDirection(met_result.wind_dir[i])
    /\ met_call = "get_era5_data" =>
          \A i \in Rows(met_result.wind_direction) :
              IsDirection(met_result.wind_direction[i])

\* The dewpoint of a reading t with the coefficient set the sign of t selects.
DewpointBySign(t, rh) ==
    IF QLt(t, Q(0)) THEN Magnus(ColdCoefficients, t, rh)
    ELSE Magnus(WarmCoefficients, t, rh)

\* C23: the dewpoint of every row is computed with the coefficient set of
\* the row's own temperature, (22.452, 272.55) below 0 and (17.625, 243.04)
\* from 0 on, whatever the other rows are: _calculate_dewpoint in
\* create_derived_meteorology and calculate_dewpoint of the app.
C23_CoefficientsPerElement ==
    /\ met_call = "create_derived_meteorology" =>
          \A i \in Rows(met.temperature) :
              met_result.dewpoint[i]
                  = DewpointBySign(met.temperature[i], met.humidity[i])
    /\ met_call = "calculate_dewpoint" =>
          \A i \in Rows(met.temperature) :
              met_result.dewpoint_sensor[i]
                  = DewpointBySign(met.temperature[i], met.humidity[i])

\* C24: for every temperature and every relative humidity in [0, 100] the
\* vapour pressure deficit is >= 0, and it is 0 at a relative humidity of
\* 100: VPD of _calculate_vpd and vapor_pressure_deficit_sensor of
\* calculate_vpd.
C24_VpdNonNegative ==
    /\ met_call = "create_derived_meteorology" =>
          \A i \in Rows(met.temperature) :
              /\ ~QLt(met_result.VPD[i], Q(0)) /\ ~IsNaN(met_result.VPD[i])
              /\ met.humidity[i] = Q(100) => met_result.VPD[i] = Q(0)
    /\ met_call = "calculate_vpd" =>
          \A i \in Rows(met.temperature) :
              LET vpd == met_result.vapor_pressure_deficit_sensor[i]
              IN  /\ ~QLt(vpd, Q(0)) /\ ~IsNaN(vpd)
                  /\ met.humidity[i] = Q(100) => vpd = Q(0)

\* calculate_vpd on a cold and a warm row: saturated air has no deficit on
\* either.
C24_Witness ==
    /\ met_call = "calculate_vpd" /\ Len(met.temperature) = 2
    /\ met.temperature[1] = Q(0 - 10) /\ met.temperature[2] = Q(20)
    /\ met.humidity[1] = Q(100)
    /\ met_result.vapor_pressure_deficit_sensor = <<Q(0), Q(0)>>

----------------------------------------------------------------------------
(* Row order of the calibrated frame.                                      *)

\* C25: TemporalTempStratCalibrator.calibrate returns its rows in the order
\* of the input rows: row j of the result is row j of the input, calibrated.
C25_InputOrder ==
    ttsc_result # NoFrame =>
        \A j \in 1..NRows(ttsc_result) :
            /\ ttsc_result.cols["timestamp"][j] = df.cols["timestamp"][j]
            /\ ttsc_result.cols["temperature"][j] = df.cols["temperature"][j]

----------------------------------------------------------------------------
(* Changes and lags after the fill.                                        *)

\* C26: in the frame engineer_all_features returns, at every row, the first
\* rows included, temp_change_Nh is the sensor temperature minus
\* sensor_temp_Nh_ago, N in 1..3.
C26_ChangeMatchesLag ==
    call = "engineer_all_features" =>
        \A i \in 1..NRows(out) :
            /\ out.cols["temp_change_1h"][i]
                   = QSub(out.cols["sensor temperature"][i],
                          out.cols["sensor_temp_1h_ago"][i])
            /\ out.cols["temp_change_2h"][i]
                   = QSub(out.cols["sensor temperature"][i],
                          out.cols["sensor_temp_2h_ago"][i])
            /\ out.cols["temp_change_3h"][i]
                   = QSub(out.cols["sensor temperature"][i],
                          out.cols["sensor_temp_3h_ago"][i])

----------------------------------------------------------------------------
(* Regime indicators, streaks and the regime label.                        *)

\* C27: in a frame engineer_all_features made from an input without missing
\* readings and TemperatureCalibrator.calibrate labelled, is_hot is 1
\* exactly on the rows of regime 'hot' and exactly where hot_streak is at
\* least 1, is_cold likewise with 'cold' and cold_streak, and no row is both.
C27_IndicatorsAgree ==
    (tc_result # NoFrame /\ NoMissing(df)) =>
        \A i \in 1..NRows(tc_result) :
            LET is_hot  == tc_result.cols["is_hot"][i] = Q(1)
                is_cold == tc_result.cols["is_cold"][i] = Q(1)
                regime  == tc_result.temperature_regime[i]
            IN  /\ is_hot <=> regime = "hot"
                /\ is_hot <=> ~QLt(tc_result.cols["hot_streak"][i], Q(1))
                /\ is_cold <=> regime = "cold"
                /\ is_cold <=> ~QLt(tc_result.cols["cold_streak"][i], Q(1))
                /\ ~(is_hot /\ is_cold)

\* A labelled frame with a hot row, a cold row, and a row on the upper
\* threshold that is neither.
C27_Witness ==
    /\ tc_result # NoFrame /\ NoMissing(df)
    /\ \E i, j, k \in 1..NRows(tc_result) :
          /\ tc_result.temperature_regime[i] = "hot"
          /\ tc_result.cols["hot_streak"][i] = Q(1)
          /\ tc_result.temperature_regime[j] = "cold"
          /\ tc_result.cols["is_cold"][j] = Q(1)
          /\ tc_result.cols["sensor temperature"][k] = Q(30)
          /\ tc_result.cols["is_hot"][k] = Q(0)
          /\ tc_result.cols["hot_streak"][k] = Q(0)

----------------------------------------------------------------------------
(* The registry of a constructed calibrator.                               *)

\* C28: a calibrator that exists holds a model for each of its three strata:
\* a construction that meets a missing or unreadable model file raises and
\* leaves no calibrator, so the model lookup of calibrate finds a model for
\* every row.
C28_RegistryComplete ==
    /\ tc # NoObject =>
          /\ DOMAIN tc.models = ModelNames
          /\ out # NoFrame => LookupError(tc, out) = ""
    /\ tc_error \in {"FileNotFoundError", "IOError"} => tc = NoObject
    /\ tc_error # "KeyError"
    /\ ttsc # NoObject => DOMAIN ttsc.models = {"cold", "moderate", "hot"}
    /\ ttsc_error \in {"NotImplementedError", "FileNotFoundError"} =>
          ttsc = NoObject
    /\ ttsc_result # NoFrame =>
          \A j \in 1..NRows(ttsc_result) :
              ttsc_result.stratum[j] \in DOMAIN ttsc.models

\* A constructed TemperatureCalibrator that has calibrated a frame with a
\* row in each regime.
C28_Witness ==
    /\ tc # NoObject /\ tc_result # NoFrame
    /\ \A name \in ModelNames :
          \E i \in 1..NRows(tc_result) : tc_result.temperature_regime[i] = name

----------------------------------------------------------------------------
(* The download cache (SpecDownload).                                      *)

\* C29: across any sequence of download_file calls, a path returned from the
\* cache branch is a file whose download completed.
C29_CachedIsComplete ==
    download.outcome = "cached" => download.returned = "complete"

----------------------------------------------------------------------------
(* The resumed upload (SpecUpload).                                        *)

\* publish_deposition is being called or has published.
PublishCalled == pc = "publish" \/ published

\* C30: publish_deposition is called only once every local .nc file is in
\* the deposition and add_metadata has succeeded.
C30_PublishAfterMetadata ==
    PublishCalled =>
        (nc_files \subseteq deposition_files /\ metadata_added = "ok")

====
